---- MODULE Spec2Model ----
(***************************************************************************)
(* Release / rollback coordination of the vabhub repositories.             *)
(*                                                                         *)
(*   scripts/release_coordination.py  ReleaseCoordinator                   *)
(*   scripts/version_manager.py       VersionManager                       *)
(*   scripts/auto_release.py          AutoRelease                          *)
(*   scripts/auto_rollback.py         AutoRollback                         *)
(*   scripts/release_monitor.py       ReleaseMonitor                       *)
(*                                                                         *)
(* The module holds one specification per command of the tool set:         *)
(*   SpecPlan         ReleaseCoordinator.generate_release_plan (the scan)   *)
(*   SpecRollback     AutoRollback.generate_rollback_plan, execute_rollback *)
(*   SpecVersion      VersionManager.validate_version_format                *)
(*   SpecCompat       VersionManager.check_dependency_compatibility         *)
(*   SpecCoordinator  release_coordination.py main: plan, validate, execute *)
(*   SpecAutoRelease  AutoRelease.main and AutoRelease.execute_release      *)
(*   SpecExecutors    the three executors side by side                      *)
(*   SpecHealth       ReleaseMonitor.calculate_health_score and             *)
(*                    calculate_overall_status                              *)
(*   SpecMonitor      ReleaseMonitor.real_time_monitor (SpecMonitorLive:    *)
(*                    the same with weak fairness of its steps)             *)
(*   SpecDetect       AutoRollback.detect_issues                            *)
(*   SpecRisk         AutoRollback.assess_rollback_risk and                 *)
(*                    estimate_rollback_duration                            *)
(*   SpecVerify       AutoRollback.verify_rollback                          *)
(*   SpecRollbackMain AutoRollback.main with the methods it calls           *)
(*   SpecUpdate       VersionManager.update_all_versions                    *)
(*   SpecStatus       release_monitor.py main showing the current status    *)
(* Each specification leaves the variables of the other commands idle.     *)
(* A string is modelled as the list of its characters.                     *)
(***************************************************************************)
EXTENDS Integers, Sequences, FiniteSets, TLC

VARIABLES
    dependencies,    \* repo -> set of repos it depends on (the dependency table)
    pc,              \* generate_release_plan: "idle", "while", "for", "return"
    released,        \* generate_release_plan: the set `released`
    release_order,   \* generate_release_plan: plan["release_order"]
    idx,             \* generate_release_plan: position of the for loop in self.repos
    scans,           \* generate_release_plan: number of for-scans started
    placed,          \* generate_release_plan: repos appended by the current scan
    rbPc,            \* execute_rollback: "idle", "start", "planned", "raised", "steps", "checks", "returned"
    rbDryRun,        \* execute_rollback: its dry_run argument
    rbFrom,          \* generate_rollback_plan: from_version
    rbTo,            \* generate_rollback_plan: to_version
    rbPlan,          \* generate_rollback_plan: the plan it returns (NoRollbackPlan before)
    rollback_order,  \* generate_rollback_plan: plan['rollback_order']
    rbRepo,          \* execute_rollback: position in plan['rollback_order']
    rbItem,          \* execute_rollback: position in the steps / checks of the repo
    rbLog,           \* execute_rollback: the steps and checks reported so far
    rbResult,        \* execute_rollback: its return value ("none" before it returns)
    verPc,           \* validate_version_format: "idle", "call", "returned"
    verInput,        \* validate_version_format: its argument, a list of characters
    verResult,       \* validate_version_format: its return value ("none" before)
    cmpPc,           \* check_dependency_compatibility: "idle", "call", "returned"
    cmpRepo,         \* check_dependency_compatibility: its argument repo
    cmpTarget,       \* check_dependency_compatibility: its argument target_version
    current_version, \* repo -> the version get_current_version reads from its file
    cmpResult,       \* check_dependency_compatibility: its return value
    coPc,            \* coordinator main: "idle", "plan", "validate", "release", "returned"
    coVersion,       \* coordinator main: args.version
    coDryRun,        \* execute_release_plan: its dry_run argument
    coPlan,          \* the plan of ReleaseCoordinator.generate_release_plan
    coRepo,          \* execute_release_plan: position in plan["release_order"]
    coReleased,      \* execute_release_plan: the repos release_repository was called for
    coOutcomes,      \* execute_release_plan: what each of these calls returned
    coResult,        \* execute_release_plan: its return value ("none" before)
    arEntry,         \* AutoRelease: the method called, "main" or "execute_release"
    arPc,            \* AutoRelease: "idle", "main", "plan", "prereq", "execute", "returned", "raised"
    argVersion,      \* AutoRelease: args.version
    argType,         \* AutoRelease: args.type
    arDryRun,        \* AutoRelease: args.dry_run / the dry_run argument
    arPlan,          \* AutoRelease: the plan (NoPlan before it is built)
    arStep,          \* execute_release: position in steps
    arInvoked,       \* execute_release: the step functions called, in order
    arOutcomes,      \* execute_release: what each called step function did
    arPreviewed,     \* execute_release: the steps printed as previews
    arQueries,       \* AutoRelease: number of get_latest_release calls made
    arResult,        \* execute_release: its return value ("none" before)
    arExit,          \* main: its return value (-1 before it returns)
    arError,         \* AutoRelease: the exception raised ("none" if none)
    hsPc,            \* ReleaseMonitor scoring call: "idle", "call", "returned"
    hsCall,          \* the method called: calculate_health_score or calculate_overall_status
    hsArg,           \* its argument: a repo_status record or a list of health scores
    hsResult,        \* its return value ("none" before it returns)
    moPc,            \* real_time_monitor: "idle", "start", "loop", "sleep", "report", "done"
    moDuration,      \* real_time_monitor: its argument duration, in seconds
    moStart,         \* real_time_monitor: start_time
    moEnd,           \* real_time_monitor: end_time
    moNow,           \* the wall clock datetime.now() reads, in seconds
    moIteration,     \* real_time_monitor: iteration
    moIterStart,     \* the clock value read by the while test that let the last iteration in
    moProbes,        \* repo -> what the three checks answer in the running iteration
    moStatus,        \* real_time_monitor: status of the running iteration (NoStatus outside)
    moAlerts,        \* check_alerts: the alerts printed in the running iteration
    moInterval,      \* real_time_monitor: interval of the running iteration (0 outside)
    moReports,       \* number of final reports generated
    dtPc,            \* detect_issues: "idle", "call", "returned"
    dtVersion,       \* detect_issues: its argument version
    dtIssues,        \* detect_issues: the record it returns (NoIssues before)
    rkPc,            \* rollback plan assessment: "idle", "call", "returned", "raised"
    rkPlan,          \* the rollback plan handed to the two assessment methods
    rkCalls,         \* the assessment methods called on the plan, in order
    vfPc,            \* verify_rollback: "idle", "for", "health", "returned"
    vfTo,            \* verify_rollback: its argument to_version
    vfObserved,      \* repo -> the version get_current_version observes
    vfHealthy,       \* what check_services_health observes
    vfRepo,          \* verify_rollback: position of the for loop in coordinator.repos
    vfChecked,       \* verify_rollback: the repos whose version was compared
    all_valid,       \* verify_rollback: all_valid
    vfResult,        \* verify_rollback: its return value ("none" before)
    rmPc,            \* AutoRollback.main: "idle", "main", "detect", "verify", "rollback", "verify_after", "returned"
    rmDetect,        \* AutoRollback.main: args.detect
    rmVerify,        \* AutoRollback.main: args.verify
    rmDryRun,        \* AutoRollback.main: args.dry_run
    rmVersion,       \* AutoRollback.main: args.version
    rmToVersion,     \* AutoRollback.main: args.to_version (None when not given)
    rmExit,          \* AutoRollback.main: its return value (-1 before it returns)
    uvPc,            \* update_all_versions: "idle", "start", "for", "returned"
    uvNew,           \* update_all_versions: new_version
    uvCreateTags,    \* update_all_versions: create_tags
    uvBefore,        \* the version files when update_all_versions is called
    uvFiles,         \* repo -> its version file: whether it exists, and the version read from it
    uvOrder,         \* update_all_versions: release_order
    uvIndex,         \* update_all_versions: position of the for loop in release_order
    uvSkipped,       \* update_all_versions: the repos whose dependency check failed
    uvUpdated,       \* update_all_versions: the repos set_version returned True for
    uvTagged,        \* update_all_versions: the repos create_git_tag was called for
    success_count,   \* update_all_versions: success_count
    uvResult         \* update_all_versions: its return value ("none" before)

planVars == <<pc, released, release_order, idx, scans, placed>>
rollbackVars ==
    <<rbPc, rbDryRun, rbFrom, rbTo, rbPlan, rollback_order, rbRepo, rbItem, rbLog, rbResult>>
versionVars == <<verPc, verInput, verResult>>
compatVars == <<cmpPc, cmpRepo, cmpTarget, current_version, cmpResult>>
coordVars == <<coPc, coVersion, coDryRun, coPlan, coRepo, coReleased, coOutcomes, coResult>>
releaseVars ==
    <<arEntry, arPc, argVersion, argType, arDryRun, arPlan, arStep, arInvoked,
      arOutcomes, arPreviewed, arQueries, arResult, arExit, arError>>
healthVars == <<hsPc, hsCall, hsArg, hsResult>>
monitorVars ==
    <<moPc, moDuration, moStart, moEnd, moNow, moIteration, moIterStart, moProbes,
      moStatus, moAlerts, moInterval, moReports>>
detectVars == <<dtPc, dtVersion, dtIssues>>
riskVars == <<rkPc, rkPlan, rkCalls>>
verifyVars == <<vfPc, vfTo, vfObserved, vfHealthy, vfRepo, vfChecked, all_valid, vfResult>>
mainVars == <<rmPc, rmDetect, rmVerify, rmDryRun, rmVersion, rmToVersion, rmExit>>
\* the commands of release_monitor.py and of auto_rollback.py
updateVars ==
    <<uvPc, uvNew, uvCreateTags, uvBefore, uvFiles, uvOrder, uvIndex, uvSkipped, uvUpdated,
      uvTagged, success_count, uvResult>>
toolVars ==
    <<healthVars, monitorVars, detectVars, riskVars, verifyVars, mainVars, updateVars>>
vars ==
    <<dependencies, planVars, rollbackVars, versionVars, compatVars, coordVars,
      releaseVars, toolVars>>

\* what the actions of one command leave alone
notPlanVars == <<rollbackVars, versionVars, compatVars, coordVars, releaseVars,
      toolVars>>
notRollbackVars == <<planVars, versionVars, compatVars, coordVars, releaseVars,
      toolVars>>
notVersionVars ==
    <<dependencies, planVars, rollbackVars, compatVars, coordVars, releaseVars,
      toolVars>>
notCompatVars ==
    <<dependencies, planVars, rollbackVars, versionVars, coordVars, releaseVars,
      toolVars>>
notCoordVars ==
    <<dependencies, planVars, rollbackVars, versionVars, compatVars, releaseVars,
      toolVars>>
notReleaseVars ==
    <<dependencies, planVars, rollbackVars, versionVars, compatVars, coordVars,
      toolVars>>

\* what no part of the rollback command touches
notRollbackCommandVars ==
    <<dependencies, planVars, versionVars, compatVars, coordVars, releaseVars,
      healthVars, monitorVars, riskVars, updateVars>>

notUpdateVars ==
    <<dependencies, planVars, rollbackVars, versionVars, compatVars, coordVars,
      releaseVars, healthVars, monitorVars, detectVars, riskVars, verifyVars, mainVars>>

notHealthVars ==
    <<dependencies, planVars, rollbackVars, versionVars, compatVars, coordVars,
      releaseVars, monitorVars, detectVars, riskVars, verifyVars,
      mainVars, updateVars>>
notMonitorVars ==
    <<dependencies, planVars, rollbackVars, versionVars, compatVars, coordVars,
      releaseVars, healthVars, detectVars, riskVars, verifyVars,
      mainVars, updateVars>>
notDetectVars ==
    <<dependencies, planVars, rollbackVars, versionVars, compatVars, coordVars,
      releaseVars, healthVars, monitorVars, riskVars, verifyVars,
      mainVars, updateVars>>
notRiskVars ==
    <<dependencies, planVars, rollbackVars, versionVars, compatVars, coordVars,
      releaseVars, healthVars, monitorVars, detectVars, verifyVars,
      mainVars, updateVars>>
notVerifyVars ==
    <<dependencies, planVars, rollbackVars, versionVars, compatVars, coordVars,
      releaseVars, healthVars, monitorVars, detectVars, riskVars,
      mainVars, updateVars>>

----------------------------------------------------------------------------
(* Bounds of the model *)

\* tables explored: the configured table with at most this many edges toggled
MaxEdgeChanges == 2
\* for-scans of generate_release_plan followed before the model stops the loop
MaxScans == 7
\* every string over VersionAlphabet up to this length is a validator input
MaxVersionLen == 6
\* calculate_overall_status is called with up to this many repositories
MaxRepositories == 3
\* seconds the clock may move beyond a sleep, and before the first while test
MaxDelay == 1

----------------------------------------------------------------------------
(* The repository table *)

\* ReleaseCoordinator.repos, in declaration order
Repos ==
    <<"vabhub-core", "vabhub-frontend", "vabhub-plugins",
      "vabhub-resources", "vabhub-deploy">>

RepoSet == {Repos[i] : i \in 1..Len(Repos)}

\* ReleaseCoordinator.dependencies (the same edges as VersionManager.repos,
\* DependencyManager.repositories and AutoRollback's dependency_graph)
ConfiguredDependencies ==
    [r \in RepoSet |->
        CASE r = "vabhub-plugins" -> {"vabhub-core"}
          [] r = "vabhub-frontend" -> {"vabhub-core"}
          [] r = "vabhub-deploy" -> {"vabhub-core", "vabhub-frontend", "vabhub-plugins"}
          [] OTHER -> {}]

\* key order of dependency_graph in AutoRollback.determine_rollback_order
RollbackGraphKeys ==
    <<"vabhub-deploy", "vabhub-frontend", "vabhub-plugins",
      "vabhub-core", "vabhub-resources">>

RECURSIVE SeqOfSet(_, _)
\* the members of S as a list, in the order of the list `base`
SeqOfSet(base, S) ==
    IF base = <<>> THEN <<>>
    ELSE IF Head(base) \in S THEN <<Head(base)>> \o SeqOfSet(Tail(base), S)
    ELSE SeqOfSet(Tail(base), S)

\* the dependency list of a repo as the table writes it (declaration order)
DepList(deps, repo) == SeqOfSet(Repos, deps[repo])

AllEdges == RepoSet \X RepoSet

RECURSIVE SubsetsUpTo(_, _)
SubsetsUpTo(S, k) ==
    IF k = 0 THEN {{}}
    ELSE LET P == SubsetsUpTo(S, k - 1)
         IN  P \cup {p \cup {e} : p \in P, e \in S}

\* the table with the edges of T toggled (edge <<r, d>>: r depends on d)
Toggle(deps, T) ==
    [r \in RepoSet |->
        (deps[r] \ {d \in RepoSet : <<r, d>> \in T})
            \cup {d \in RepoSet : <<r, d>> \in T /\ d \notin deps[r]}]

Tables == {Toggle(ConfiguredDependencies, T) : T \in SubsetsUpTo(AllEdges, MaxEdgeChanges)}

RECURSIVE ReachableFrom(_, _, _)
\* repos reachable from the set S along dependency edges in at most n steps
ReachableFrom(deps, S, n) ==
    IF n = 0 THEN S
    ELSE ReachableFrom(deps, S \cup UNION {deps[r] : r \in S}, n - 1)

Acyclic(deps) ==
    \A r \in RepoSet : r \notin ReachableFrom(deps, deps[r], Len(Repos))

Reverse(seq) == [i \in 1..Len(seq) |-> seq[Len(seq) + 1 - i]]

IsPermutation(seq) ==
    /\ Len(seq) = Len(Repos)
    /\ {seq[i] : i \in 1..Len(seq)} = RepoSet

\* every dependency stands before its dependent in seq
DependenciesFirst(deps, seq) ==
    \A i \in 1..Len(seq) : \A d \in deps[seq[i]] :
        \E j \in 1..(i - 1) : seq[j] = d

\* every dependent stands before its dependencies in seq
DependentsFirst(deps, seq) ==
    \A i \in 1..Len(seq) : \A d \in deps[seq[i]] :
        \E j \in (i + 1)..Len(seq) : seq[j] = d

----------------------------------------------------------------------------
(* ReleaseCoordinator.generate_release_plan, the topological scan *)

DepsReadyAny(deps, repo, rel) ==
    deps[repo] = {} \/ \E dep \in deps[repo] : dep \in rel

\* deps_ready = all(dep in released for dep in self.dependencies.get(repo, []))
DepsReady(deps, repo, rel) ==
    \A dep \in deps[repo] : dep \in rel

PlanIdle ==
    /\ pc = "idle"
    /\ released = {}
    /\ release_order = <<>>
    /\ idx = 0
    /\ scans = 0
    /\ placed = 0

\* generate_rollback_plan has not returned a plan
NoRollbackPlan == [absent |-> TRUE]

RollbackIdle ==
    /\ rbPc = "idle"
    /\ rbDryRun = FALSE
    /\ rbFrom = <<>>
    /\ rbTo = <<>>
    /\ rbPlan = NoRollbackPlan
    /\ rollback_order = <<>>
    /\ rbRepo = 0
    /\ rbItem = 0
    /\ rbLog = <<>>
    /\ rbResult = "none"

VersionIdle ==
    /\ verPc = "idle"
    /\ verInput = <<>>
    /\ verResult = "none"

CompatIdle ==
    /\ cmpPc = "idle"
    /\ cmpRepo = "none"
    /\ cmpTarget = <<>>
    /\ current_version = <<>>
    /\ cmpResult = "none"

CoordIdle ==
    /\ coPc = "idle"
    /\ coVersion = <<>>
    /\ coDryRun = FALSE
    /\ coPlan = [absent |-> TRUE]
    /\ coRepo = 0
    /\ coReleased = <<>>
    /\ coOutcomes = <<>>
    /\ coResult = "none"

ReleaseIdle ==
    /\ arEntry = "none"
    /\ arPc = "idle"
    /\ argVersion = <<>>
    /\ argType = "none"
    /\ arDryRun = FALSE
    /\ arPlan = [absent |-> TRUE]
    /\ arStep = 0
    /\ arInvoked = <<>>
    /\ arOutcomes = <<>>
    /\ arPreviewed = <<>>
    /\ arQueries = 0
    /\ arResult = "none"
    /\ arExit = -1
    /\ arError = "none"

\* no status has been polled
NoStatus == [absent |-> TRUE]

\* detect_issues has not returned
NoIssues == [absent |-> TRUE]

HealthIdle ==
    /\ hsPc = "idle"
    /\ hsCall = "none"
    /\ hsArg = <<>>
    /\ hsResult = "none"

MonitorIdle ==
    /\ moPc = "idle"
    /\ moDuration = 0
    /\ moStart = 0
    /\ moEnd = 0
    /\ moNow = 0
    /\ moIteration = 0
    /\ moIterStart = 0
    /\ moProbes = <<>>
    /\ moStatus = NoStatus
    /\ moAlerts = {}
    /\ moInterval = 0
    /\ moReports = 0

DetectIdle ==
    /\ dtPc = "idle"
    /\ dtVersion = <<>>
    /\ dtIssues = NoIssues

RiskIdle ==
    /\ rkPc = "idle"
    /\ rkPlan = [absent |-> TRUE]
    /\ rkCalls = <<>>

VerifyIdle ==
    /\ vfPc = "idle"
    /\ vfTo = <<>>
    /\ vfObserved = <<>>
    /\ vfHealthy = TRUE
    /\ vfRepo = 0
    /\ vfChecked = <<>>
    /\ all_valid = TRUE
    /\ vfResult = "none"

MainIdle ==
    /\ rmPc = "idle"
    /\ rmDetect = FALSE
    /\ rmVerify = FALSE
    /\ rmDryRun = FALSE
    /\ rmVersion = <<>>
    /\ rmToVersion = <<>>
    /\ rmExit = -1

UpdateIdle ==
    /\ uvPc = "idle"
    /\ uvNew = <<>>
    /\ uvCreateTags = FALSE
    /\ uvBefore = <<>>
    /\ uvFiles = <<>>
    /\ uvOrder = <<>>
    /\ uvIndex = 0
    /\ uvSkipped = <<>>
    /\ uvUpdated = <<>>
    /\ uvTagged = <<>>
    /\ success_count = 0
    /\ uvResult = "none"

\* the commands other than `cmd` are not running
OthersIdle(cmd) ==
    /\ cmd # "update" => UpdateIdle
    /\ cmd # "main" => MainIdle
    /\ cmd # "health" => HealthIdle
    /\ cmd # "monitor" => MonitorIdle
    /\ cmd # "detect" => DetectIdle
    /\ cmd # "risk" => RiskIdle
    /\ cmd # "verify" => VerifyIdle
    /\ cmd # "coordinator" => CoordIdle
    /\ cmd # "release" => ReleaseIdle
    /\ cmd # "compat" => CompatIdle
    /\ cmd # "plan" => PlanIdle
    /\ cmd # "rollback" => RollbackIdle
    /\ cmd # "version" => VersionIdle
    /\ cmd \notin {"plan", "rollback"} => dependencies = ConfiguredDependencies

\* released = set(); plan["release_order"] = []
PlanInit ==
    /\ dependencies \in Tables
    /\ pc = "while"
    /\ released = {}
    /\ release_order = <<>>
    /\ idx = 0
    /\ scans = 0
    /\ placed = 0
    /\ OthersIdle("plan")

\* while len(released) < len(self.repos): true, the for loop starts over
WhileEnter ==
    /\ pc = "while"
    /\ Cardinality(released) < Len(Repos)
    /\ scans < MaxScans
    /\ pc' = "for"
    /\ idx' = 1
    /\ scans' = scans + 1
    /\ placed' = 0
    /\ UNCHANGED <<dependencies, released, release_order, notPlanVars>>

\* while len(released) < len(self.repos): false, return plan
WhileExit ==
    /\ pc = "while"
    /\ Cardinality(released) >= Len(Repos)
    /\ pc' = "return"
    /\ UNCHANGED <<dependencies, released, release_order, idx, scans, placed, notPlanVars>>

ForAdvance ==
    /\ idx' = IF idx = Len(Repos) THEN 0 ELSE idx + 1
    /\ pc' = IF idx = Len(Repos) THEN "while" ELSE "for"

\* one pass of the for body that appends the repo
ForPlace ==
    /\ pc = "for"
    /\ Repos[idx] \notin released
    /\ DepsReady(dependencies, Repos[idx], released)
    /\ release_order' = Append(release_order, Repos[idx])
    /\ released' = released \cup {Repos[idx]}
    /\ placed' = placed + 1
    /\ ForAdvance
    /\ UNCHANGED <<dependencies, scans, notPlanVars>>

\* one pass of the for body that leaves the repo: already released, or
\* a dependency is not released yet
ForSkip ==
    /\ pc = "for"
    /\ \/ Repos[idx] \in released
       \/ ~DepsReady(dependencies, Repos[idx], released)
    /\ ForAdvance
    /\ UNCHANGED <<dependencies, released, release_order, scans, placed, notPlanVars>>

PlanNext == WhileEnter \/ WhileExit \/ ForPlace \/ ForSkip

SpecPlan == PlanInit /\ [][PlanNext]_vars

----------------------------------------------------------------------------
(* VersionManager._get_release_order, the same scan as a function *)

RECURSIVE GetReleaseOrderFor(_, _, _)
\* the for loop from position i on; st = [released, order]
GetReleaseOrderFor(deps, i, st) ==
    IF i > Len(Repos) THEN st
    ELSE IF Repos[i] \notin st.released /\ DepsReady(deps, Repos[i], st.released)
         THEN GetReleaseOrderFor(deps, i + 1,
                  [released |-> st.released \cup {Repos[i]},
                   order |-> Append(st.order, Repos[i])])
         ELSE GetReleaseOrderFor(deps, i + 1, st)

RECURSIVE GetReleaseOrderWhile(_, _)
GetReleaseOrderWhile(deps, st) ==
    IF Cardinality(st.released) < Len(Repos)
    THEN GetReleaseOrderWhile(deps, GetReleaseOrderFor(deps, 1, st))
    ELSE st.order

GetReleaseOrderDependentsFirst(deps) ==
    Reverse(GetReleaseOrderWhile(deps, [released |-> {}, order |-> <<>>]))

\* defined on acyclic tables only: on a table with a cycle the while loop does not end
GetReleaseOrder(deps) ==
    GetReleaseOrderWhile(deps, [released |-> {}, order |-> <<>>])

----------------------------------------------------------------------------
(* AutoRollback.determine_rollback_order *)

RECURSIVE Visit(_, _, _)
RECURSIVE VisitAll(_, _, _)
\* def visit(repo); st = [visited, order]
Visit(deps, repo, st) ==
    IF repo \in st.visited THEN st
    ELSE LET st1 == [st EXCEPT !.visited = @ \cup {repo}]
             st2 == VisitAll(deps, DepList(deps, repo), st1)
         IN  [st2 EXCEPT !.order = Append(@, repo)]

\* for r in list: visit(r)
VisitAll(deps, list, st) ==
    IF list = <<>> THEN st
    ELSE VisitAll(deps, Tail(list), Visit(deps, Head(list), st))

DetermineRollbackOrder(deps) ==
    VisitAll(deps, RollbackGraphKeys, [visited |-> {}, order |-> <<>>]).order

----------------------------------------------------------------------------
(* Version strings: a string is the list of its characters *)

Digits == {"0", "1", "2", "3", "4", "5", "6", "7", "8", "9"}
NonZeroDigits == Digits \ {"0"}
Letters ==
    {"a", "b", "c", "d", "e", "f", "g", "h", "i", "j", "k", "l", "m",
     "n", "o", "p", "q", "r", "s", "t", "u", "v", "w", "x", "y", "z",
     "A", "B", "C", "D", "E", "F", "G", "H", "I", "J", "K", "L", "M",
     "N", "O", "P", "Q", "R", "S", "T", "U", "V", "W", "X", "Y", "Z"}

\* the characters i .. j-1 of s
Slice(s, i, j) == [k \in 1..(j - i) |-> s[i + k - 1]]

\* the characters the strings of length up to MaxVersionLen are built from
VersionAlphabet == {"0", "1", ".", "-", "+", "v"}

\* strings given by name: those of the specification's examples and their neighbours
NamedVersions ==
    { <<"1", ".", "2", ".", "3">>,
      <<"1", ".", "2", ".", "3", "-", "r", "c", ".", "1">>,
      <<"0", ".", "0", ".", "1">>,
      <<"1", ".", "2">>,
      <<"v", "1", ".", "2", ".", "3", ".", "4">>,
      <<"1", ".", "0", "2", ".", "3">>,
      <<"v", "1", ".", "2", ".", "3">>,
      <<"V", "1", ".", "2", ".", "3">>,
      <<"1", ".", "2", ".", "3", "\n">>,
      <<"1", ".", "2", ".", "3", "\n", "\n">>,
      <<"\n", "1", ".", "2", ".", "3">>,
      <<"1", "0", ".", "2", "0", ".", "3", "0">>,
      <<"1", ".", "2", ".", "3", "+", "b", "4">>,
      <<"1", ".", "2", ".", "3", "-", "0", "1">>,
      <<"1", ".", "2", ".", "3", "-", "0", "a">>,
      <<"1", ".", "2", ".", "3", "-", "a", "+", "b", "\n">>,
      <<"1", ".", "2", ".", "3", "-", "a", ".", ".", "b">>,
      <<"1", ".", "2", ".", "3", "+", "b", "+", "c">>,
      <<"1", ".", "2", ".", "3", " ">>,
      <<"l", "a", "t", "e", "s", "t">> }

VersionStrings ==
    UNION {[1..n -> VersionAlphabet] : n \in 0..MaxVersionLen} \cup NamedVersions

----------------------------------------------------------------------------
(* VersionManager.validate_version_format: re.match(pattern, version).     *)
(* The pattern reads: an optional v; three NUM joined by dots; an optional *)
(* hyphen with PRE identifiers joined by dots; an optional plus sign with  *)
(* BUILD identifiers joined by dots; the end of the string. The three      *)
(* kinds of identifier are defined below.                                  *)
(* Each part of the pattern is the set of positions at which a match of    *)
(* that part, begun at a given position, can end; position i stands before *)
(* character i, and Len(s) + 1 is the end of the string.                   *)

\* the pattern of validate_version_format, as written in the source
pattern ==
    "^v?(0|[1-9]\\d*)\\.(0|[1-9]\\d*)\\.(0|[1-9]\\d*)(?:-((?:0|[1-9]\\d*|\\d*[a-zA-Z-][0-9a-zA-Z-]*)(?:\\.(?:0|[1-9]\\d*|\\d*[a-zA-Z-][0-9a-zA-Z-]*))*))?(?:\\+([0-9a-zA-Z-]+(?:\\.[0-9a-zA-Z-]+)*))?$"

\* the pattern continues with the character c: the positions after it
AfterChar(s, from, c) == {i + 1 : i \in {k \in from : k <= Len(s) /\ s[k] = c}}

\* v?
OptionalV(s, from) == from \cup AfterChar(s, from, "v")

IsNumericIdentifierLeadingZero(t) ==
    /\ Len(t) >= 1
    /\ \A k \in 1..Len(t) : t[k] \in Digits

\* 0|[1-9]\d*
IsNumericIdentifier(t) ==
    /\ Len(t) >= 1
    /\ \/ t = <<"0">>
       \/ t[1] \in NonZeroDigits /\ \A k \in 2..Len(t) : t[k] \in Digits

\* \d*[a-zA-Z-][0-9a-zA-Z-]*
IsAlphanumericIdentifier(t) ==
    \E k \in 1..Len(t) :
        /\ \A m \in 1..(k - 1) : t[m] \in Digits
        /\ t[k] \in Letters \cup {"-"}
        /\ \A m \in (k + 1)..Len(t) : t[m] \in Digits \cup Letters \cup {"-"}

\* [0-9a-zA-Z-]+
IsBuildIdentifier(t) ==
    /\ Len(t) >= 1
    /\ \A k \in 1..Len(t) : t[k] \in Digits \cup Letters \cup {"-"}

\* NUM begun at a position of `from`
NumericEnds(s, from) ==
    {j \in 1..(Len(s) + 1) : \E i \in from : i < j /\ IsNumericIdentifier(Slice(s, i, j))}

\* PRE begun at a position of `from`
PrereleaseIdEnds(s, from) ==
    {j \in 1..(Len(s) + 1) : \E i \in from :
        /\ i < j
        /\ \/ IsNumericIdentifier(Slice(s, i, j))
           \/ IsAlphanumericIdentifier(Slice(s, i, j))}

\* BUILD begun at a position of `from`
BuildIdEnds(s, from) ==
    {j \in 1..(Len(s) + 1) : \E i \in from : i < j /\ IsBuildIdentifier(Slice(s, i, j))}

RECURSIVE PrereleaseMore(_, _)
\* (?:\.PRE)* continued from the positions `ends`
PrereleaseMore(s, ends) ==
    LET more == ends \cup PrereleaseIdEnds(s, AfterChar(s, ends, "."))
    IN  IF more = ends THEN ends ELSE PrereleaseMore(s, more)

RECURSIVE BuildMore(_, _)
\* (?:\.BUILD)* continued from the positions `ends`
BuildMore(s, ends) ==
    LET more == ends \cup BuildIdEnds(s, AfterChar(s, ends, "."))
    IN  IF more = ends THEN ends ELSE BuildMore(s, more)

\* the optional group: a hyphen, PRE, and more PRE after dots
OptionalPrerelease(s, from) ==
    from \cup PrereleaseMore(s, PrereleaseIdEnds(s, AfterChar(s, from, "-")))

\* the optional group: a plus sign, BUILD, and more BUILD after dots
OptionalBuild(s, from) ==
    from \cup BuildMore(s, BuildIdEnds(s, AfterChar(s, from, "+")))

\* $ : the end of the string, or the position before a newline that ends it
AtDollar(s, i) ==
    \/ i = Len(s) + 1
    \/ i = Len(s) /\ s[i] = "\n"

\* the positions reached after  v? NUM \. NUM \. NUM
CoreEnds(s) ==
    LET major == NumericEnds(s, OptionalV(s, {1}))
        minor == NumericEnds(s, AfterChar(s, major, "."))
    IN  NumericEnds(s, AfterChar(s, minor, "."))

\* return re.match(pattern, version) is not None
ValidateVersionFormat(s) ==
    \E i \in OptionalBuild(s, OptionalPrerelease(s, CoreEnds(s))) : AtDollar(s, i)

VersionInit ==
    /\ verPc = "call"
    /\ verInput \in VersionStrings
    /\ verResult = "none"
    /\ OthersIdle("version")

\* validate_version_format(version)
CallValidateVersionFormat ==
    /\ verPc = "call"
    /\ verResult' = ValidateVersionFormat(verInput)
    /\ verPc' = "returned"
    /\ UNCHANGED <<verInput, notVersionVars>>

VersionNext == CallValidateVersionFormat

SpecVersion == VersionInit /\ [][VersionNext]_vars

----------------------------------------------------------------------------
(* str.split and the version files *)

\* the first position of the character c in s, 0 when s does not hold it
FirstIndex(s, c) ==
    IF \E i \in 1..Len(s) : s[i] = c
    THEN CHOOSE i \in 1..Len(s) : s[i] = c /\ \A k \in 1..(i - 1) : s[k] # c
    ELSE 0

RECURSIVE Split(_, _)
\* s.split(c)
Split(s, c) ==
    IF FirstIndex(s, c) = 0 THEN <<s>>
    ELSE <<Slice(s, 1, FirstIndex(s, c))>>
            \o Split(Slice(s, FirstIndex(s, c) + 1, Len(s) + 1), c)

\* a version that cannot be read: get_current_version returns None
None == <<"N", "o", "n", "e">>

\* contents of the version files in the model of check_dependency_compatibility
FileVersions ==
    { None,
      <<"1", ".", "0", ".", "0">>,
      <<"v", "1", ".", "0", ".", "0">>,
      <<"2", ".", "0", ".", "0">>,
      <<"1", "0", ".", "2", ".", "0">> }

\* target versions in the model of check_dependency_compatibility
TargetVersions ==
    { <<"1", ".", "0", ".", "0">>,
      <<"v", "1", ".", "2", ".", "3">>,
      <<"2", ".", "1", ".", "0", "-", "r", "c", ".", "1">>,
      <<"1", "0", ".", "0", ".", "0">> }

----------------------------------------------------------------------------
(* VersionManager.check_dependency_compatibility *)

\* current_major != target_major, both the text before the first dot
MajorMismatch(dep_version, target_version) ==
    Split(dep_version, ".")[1] # Split(target_version, ".")[1]

RECURSIVE CompatibilityIssues(_, _, _)
\* the for loop over repo_info["dependencies"]: the issues it appends
CompatibilityIssues(deplist, target_version, current) ==
    IF deplist = <<>> THEN <<>>
    ELSE LET dep_repo == Head(deplist)
             dep_version == current[dep_repo]
             rest == CompatibilityIssues(Tail(deplist), target_version, current)
         IN  IF dep_version = None \/ dep_version = <<>>
             THEN <<[kind |-> "unavailable", dep |-> dep_repo,
                     current |-> dep_version, target |-> target_version]>> \o rest
             ELSE IF MajorMismatch(dep_version, target_version)
             THEN <<[kind |-> "incompatible", dep |-> dep_repo,
                     current |-> dep_version, target |-> target_version]>> \o rest
             ELSE rest

\* check_dependency_compatibility(repo, target_version), `current` the versions
\* get_current_version reads
CheckDependencyCompatibility(repo, target_version, current) ==
    IF repo \notin RepoSet
    THEN [compatible |-> FALSE,
          issues |-> <<[kind |-> "unknown", dep |-> repo,
                        current |-> None, target |-> target_version]>>]
    ELSE LET issues == CompatibilityIssues(DepList(ConfiguredDependencies, repo),
                                           target_version, current)
         IN  [compatible |-> Len(issues) = 0, issues |-> issues]

CompatInit ==
    /\ cmpPc = "call"
    /\ cmpRepo \in RepoSet \cup {"vabhub-unknown"}
    /\ cmpTarget \in TargetVersions
    /\ current_version \in [RepoSet -> FileVersions]
    /\ cmpResult = "none"
    /\ OthersIdle("compat")

\* check_dependency_compatibility(repo, target_version)
CallCheckDependencyCompatibility ==
    /\ cmpPc = "call"
    /\ cmpResult' = CheckDependencyCompatibility(cmpRepo, cmpTarget, current_version)
    /\ cmpPc' = "returned"
    /\ UNCHANGED <<cmpRepo, cmpTarget, current_version, notCompatVars>>

CompatNext == CallCheckDependencyCompatibility

SpecCompat == CompatInit /\ [][CompatNext]_vars

----------------------------------------------------------------------------
(* ReleaseCoordinator: plan building, validation and execution *)

\* what get_latest_release can return for a repository (None: no release found)
LatestVersions ==
    { None,
      <<"1", ".", "0", ".", "0">>,
      <<"v", "1", ".", "0", ".", "0">>,
      <<"2", ".", "0", ".", "0">> }

\* version arguments of the commands
ArgVersions ==
    { <<"1", ".", "0", ".", "0">>,
      <<"v", "1", ".", "2", ".", "3">>,
      <<"2", ".", "1", ".", "0", "-", "r", "c", ".", "1">>,
      <<"1", ".", "2">>,
      <<"1", ".", "0", "2", ".", "3">>,
      <<"l", "a", "t", "e", "s", "t">> }

\* no plan has been built
NoPlan == [absent |-> TRUE]

RECURSIVE CoordinatorCompatibility(_, _, _)
\* ReleaseCoordinator.check_dependency_compatibility: the loop over deps;
\* ok is its return value, queries the number of get_latest_release calls
CoordinatorCompatibility(deplist, target_version, latest) ==
    IF deplist = <<>> THEN [ok |-> TRUE, queries |-> 0]
    ELSE LET latest_version == latest[Head(deplist)]
             rest == CoordinatorCompatibility(Tail(deplist), target_version, latest)
         IN  IF latest_version = None
             THEN [ok |-> rest.ok, queries |-> rest.queries + 1]
             ELSE IF Split(latest_version, ".")[1] # Split(target_version, ".")[1]
             THEN [ok |-> FALSE, queries |-> 1]
             ELSE [ok |-> rest.ok, queries |-> rest.queries + 1]

\* ReleaseCoordinator.generate_release_plan(version), `latest` the answers of
\* get_latest_release; the release order is the scan modelled step by step in
\* SpecPlan, here on the configured table
GenerateReleasePlan(version, latest) ==
    [version |-> version,
     timestamp |-> "now",
     repositories |->
        [r \in RepoSet |->
            [current_version |-> latest[r],
             target_version |-> version,
             release_ready |->
                CoordinatorCompatibility(DepList(ConfiguredDependencies, r),
                                         version, latest).ok]],
     dependencies |-> ConfiguredDependencies,
     release_order |-> GetReleaseOrder(ConfiguredDependencies)]

RECURSIVE SumQueries(_, _, _)
\* get_latest_release calls of generate_release_plan for the repos of `list`
SumQueries(list, version, latest) ==
    IF list = <<>> THEN 0
    ELSE 1 + CoordinatorCompatibility(DepList(ConfiguredDependencies, Head(list)),
                                      version, latest).queries
           + SumQueries(Tail(list), version, latest)

\* part.isdigit() of an ASCII string
IsDigit(part) ==
    /\ Len(part) >= 1
    /\ \A k \in 1..Len(part) : part[k] \in Digits

\* ReleaseCoordinator.is_valid_version
IsValidVersion(version) ==
    /\ Len(Split(version, ".")) = 3
    /\ \A k \in 1..Len(Split(version, ".")) : IsDigit(Split(version, ".")[k])

ValidateReleasePlanVersionOnly(plan) ==
    \A repo \in DOMAIN plan.repositories :
        IsValidVersion(plan.repositories[repo].target_version)

\* ReleaseCoordinator.validate_release_plan: no issue was collected
ValidateReleasePlan(plan) ==
    \A repo \in DOMAIN plan.repositories :
        /\ plan.repositories[repo].release_ready
        /\ IsValidVersion(plan.repositories[repo].target_version)

\* ReleaseCoordinator.release_repository: what it can return. The body in the
\* source simulates the release and answers True; the release it stands for
\* can succeed or fail
ReleaseRepository(repo, version) == {TRUE, FALSE}

AbortsPlanNever(called, success) == FALSE

\* if not success: return False
AbortsPlan(called, success) == called /\ ~success

\* if not dry_run: the release of the repository is carried out
CoordReleases(dry_run) == ~dry_run

CoordInit ==
    /\ coPc = "plan"
    /\ coVersion \in ArgVersions
    /\ coDryRun \in BOOLEAN
    /\ coPlan = NoPlan
    /\ coRepo = 0
    /\ coReleased = <<>>
    /\ coOutcomes = <<>>
    /\ coResult = "none"
    /\ OthersIdle("coordinator")

\* main: plan = coordinator.generate_release_plan(args.version)
CoordGeneratePlan ==
    /\ coPc = "plan"
    /\ \E latest \in [RepoSet -> LatestVersions] :
          coPlan' = GenerateReleasePlan(coVersion, latest)
    /\ coPc' = "validate"
    /\ UNCHANGED <<coVersion, coDryRun, coRepo, coReleased, coOutcomes, coResult,
                   notCoordVars>>

\* execute_release_plan: if not self.validate_release_plan(plan): return False
CoordValidate ==
    /\ coPc = "validate"
    /\ IF ValidateReleasePlan(coPlan)
       THEN coPc' = "release" /\ coRepo' = 1 /\ UNCHANGED coResult
       ELSE coPc' = "returned" /\ coResult' = "False" /\ UNCHANGED coRepo
    /\ UNCHANGED <<coVersion, coDryRun, coPlan, coReleased, coOutcomes, notCoordVars>>

\* execute_release_plan: one pass of  for repo in plan["release_order"];
\* after the last repository: return True
CoordReleaseRepo ==
    /\ coPc = "release"
    /\ \E success \in ReleaseRepository(coPlan.release_order[coRepo], coPlan.version) :
          LET repo == coPlan.release_order[coRepo]
              called == CoordReleases(coDryRun)
          IN  /\ coReleased' = IF called THEN Append(coReleased, repo) ELSE coReleased
              /\ coOutcomes' = IF called THEN Append(coOutcomes, success) ELSE coOutcomes
              /\ IF AbortsPlan(called, success)
                 THEN coPc' = "returned" /\ coResult' = "False" /\ UNCHANGED coRepo
                 ELSE IF coRepo < Len(coPlan.release_order)
                 THEN coRepo' = coRepo + 1 /\ UNCHANGED <<coPc, coResult>>
                 ELSE coPc' = "returned" /\ coResult' = "True" /\ UNCHANGED coRepo
    /\ UNCHANGED <<coVersion, coDryRun, coPlan, notCoordVars>>

CoordNext == CoordGeneratePlan \/ CoordValidate \/ CoordReleaseRepo

SpecCoordinator == CoordInit /\ [][CoordNext]_vars

----------------------------------------------------------------------------
(* AutoRelease: main and execute_release *)

\* AutoRelease.release_types
ReleaseTypes == {"major", "minor", "patch", "prerelease"}

\* the values of args.type
ArgTypes == ReleaseTypes \cup {"hotfix", ""}

ValidateArgumentsVersionOnly(version, type) ==
    ValidateVersionFormat(version)

\* AutoRelease.validate_arguments
ValidateArguments(version, type) ==
    /\ ValidateVersionFormat(version)
    /\ type \in ReleaseTypes

\* AutoRelease.generate_release_plan: the coordinator's plan with the release
\* type, its description and a timestamp added
AutoGenerateReleasePlan(version, release_type, latest) ==
    [release_type |-> release_type,
     release_description |-> release_type] @@ GenerateReleasePlan(version, latest)

\* the steps of execute_release, by the name of the method bound to each
StepNames ==
    <<"update_versions", "run_integration_tests", "create_git_tags",
      "publish_packages", "verify_deployment">>

\* what step_func(plan) can do for step i: return True or False, or raise.
\* update_versions and create_git_tags read plan['target_version'];
\* update_all_versions answers False for an invalid version, else as the version
\* files allow; VersionManager has no method create_tags; the other steps
\* return True
StepOutcomes(i, plan) ==
    CASE i = 1 ->
            IF "target_version" \notin DOMAIN plan THEN {"KeyError"}
            ELSE IF ~ValidateVersionFormat(plan.target_version) THEN {"False"}
            ELSE {"True", "False", "OSError"}
      [] i = 3 -> {"AttributeError"}
      [] OTHER -> {"True"}

StepAlwaysInvoked(dry_run) == TRUE

\* if dry_run: print the preview and continue; else the step is invoked
StepInvoked(dry_run) == ~dry_run

NeverAborts(outcome) == FALSE

\* if not success: return False
AbortsRelease(outcome) == outcome = "False"

\* plans handed to execute_release directly: the planner's plan, and the same
\* with a top-level target_version
InputPlans ==
    LET base == {AutoGenerateReleasePlan(v, "patch", [r \in RepoSet |-> l]) :
                    v \in ArgVersions, l \in LatestVersions}
    IN  base \cup {[target_version |-> p.version] @@ p : p \in base}

\* AutoRelease.main(args) is called
MainInit ==
    /\ arEntry = "main"
    /\ arPc = "main"
    /\ argVersion \in ArgVersions
    /\ argType \in ArgTypes
    /\ arDryRun \in BOOLEAN
    /\ arPlan = NoPlan
    /\ arStep = 0

\* AutoRelease.execute_release(plan, dry_run) is called
ExecuteInit ==
    /\ arEntry = "execute_release"
    /\ arPc = "execute"
    /\ arPlan \in InputPlans
    /\ argVersion = arPlan.version
    /\ argType = arPlan.release_type
    /\ arDryRun \in BOOLEAN
    /\ arStep = 1

AutoReleaseInit ==
    /\ MainInit \/ ExecuteInit
    /\ arInvoked = <<>>
    /\ arOutcomes = <<>>
    /\ arPreviewed = <<>>
    /\ arQueries = 0
    /\ arResult = "none"
    /\ arExit = -1
    /\ arError = "none"
    /\ OthersIdle("release")

\* main: if not self.validate_arguments(args): return 1
MainValidateArguments ==
    /\ arPc = "main"
    /\ IF ValidateArguments(argVersion, argType)
       THEN arPc' = "plan" /\ UNCHANGED arExit
       ELSE arPc' = "returned" /\ arExit' = 1
    /\ UNCHANGED <<arEntry, argVersion, argType, arDryRun, arPlan, arStep, arInvoked,
                   arOutcomes, arPreviewed, arQueries, arResult, arError, notReleaseVars>>

\* main: plan = self.generate_release_plan(args.version, args.type)
MainGenerateReleasePlan ==
    /\ arPc = "plan"
    /\ \E latest \in [RepoSet -> LatestVersions] :
          /\ arPlan' = AutoGenerateReleasePlan(argVersion, argType, latest)
          /\ arQueries' = arQueries + SumQueries(Repos, argVersion, latest)
    /\ arPc' = "prereq"
    /\ UNCHANGED <<arEntry, argVersion, argType, arDryRun, arStep, arInvoked,
                   arOutcomes, arPreviewed, arResult, arExit, arError, notReleaseVars>>

\* main: self.check_prerequisites(plan). It reads plan['target_version'], a key
\* the plan of generate_release_plan does not hold, and then calls
\* dependency_manager.check_all_dependencies, a method DependencyManager does
\* not have: it raises, and main with it
MainCheckPrerequisites ==
    /\ arPc = "prereq"
    /\ arPc' = "raised"
    /\ arError' = IF "target_version" \notin DOMAIN arPlan
                  THEN "KeyError" ELSE "AttributeError"
    /\ UNCHANGED <<arEntry, argVersion, argType, arDryRun, arPlan, arStep, arInvoked,
                   arOutcomes, arPreviewed, arQueries, arResult, arExit, notReleaseVars>>

\* execute_release: one pass of  for step_name, step_func in steps;
\* after the last step: return True
ExecuteReleaseStep ==
    /\ arPc = "execute"
    /\ \E outcome \in StepOutcomes(arStep, arPlan) :
          LET invoked == StepInvoked(arDryRun)
          IN  /\ arInvoked' = IF invoked THEN Append(arInvoked, StepNames[arStep])
                              ELSE arInvoked
              /\ arOutcomes' = IF invoked THEN Append(arOutcomes, outcome)
                               ELSE arOutcomes
              /\ arPreviewed' = IF invoked THEN arPreviewed
                                ELSE Append(arPreviewed, StepNames[arStep])
              /\ IF invoked /\ outcome \notin {"True", "False"}
                 THEN /\ arPc' = "raised"
                      /\ arError' = outcome
                      /\ UNCHANGED <<arStep, arResult>>
                 ELSE IF invoked /\ AbortsRelease(outcome)
                 THEN /\ arPc' = "returned"
                      /\ arResult' = "False"
                      /\ UNCHANGED <<arStep, arError>>
                 ELSE IF arStep < Len(StepNames)
                 THEN /\ arStep' = arStep + 1
                      /\ UNCHANGED <<arPc, arResult, arError>>
                 ELSE /\ arPc' = "returned"
                      /\ arResult' = "True"
                      /\ UNCHANGED <<arStep, arError>>
    /\ UNCHANGED <<arEntry, argVersion, argType, arDryRun, arPlan, arQueries, arExit,
                   notReleaseVars>>

AutoReleaseNext ==
    \/ MainValidateArguments
    \/ MainGenerateReleasePlan
    \/ MainCheckPrerequisites
    \/ ExecuteReleaseStep

SpecAutoRelease == AutoReleaseInit /\ [][AutoReleaseNext]_vars

----------------------------------------------------------------------------
(* ReleaseMonitor: health scoring and the overall status *)

\* max(a, b) of two integers
Max(a, b) == IF a >= b THEN a ELSE b

\* what check_build_status, check_test_status and check_deployment_status can
\* report for a repository; the bodies in the source are placeholders for the
\* CI and deployment queries and answer 'success'
CheckStatuses == {"success", "failure", "unknown", "pending", "running"}

CalculateHealthScoreEqualWeights(repo_status) ==
    LET built == IF repo_status.build_status # "success" THEN 100 - 30 ELSE 100
        tested == IF repo_status.test_status # "success" THEN built - 30 ELSE built
        deployed == IF repo_status.deployment_status # "success"
                    THEN tested - 30 ELSE tested
    IN  Max(0, deployed)

CalculateHealthScoreBuildTen(repo_status) ==
    LET built == IF repo_status.build_status # "success" THEN 100 - 10 ELSE 100
        tested == IF repo_status.test_status # "success" THEN built - 30 ELSE built
        deployed == IF repo_status.deployment_status # "success"
                    THEN tested - 40 ELSE tested
    IN  Max(0, deployed)

\* ReleaseMonitor.calculate_health_score: score = 100, then the three deductions
CalculateHealthScore(repo_status) ==
    LET built == IF repo_status.build_status # "success" THEN 100 - 30 ELSE 100
        tested == IF repo_status.test_status # "success" THEN built - 30 ELSE built
        deployed == IF repo_status.deployment_status # "success"
                    THEN tested - 40 ELSE tested
    IN  Max(0, deployed)

StatusCountsStrict(repositories) ==
    [success |-> Cardinality({k \in DOMAIN repositories :
                                 repositories[k].health_score > 80}),
     warning |-> Cardinality({k \in DOMAIN repositories :
                                 /\ ~(repositories[k].health_score > 80)
                                 /\ repositories[k].health_score > 60}),
     error |-> Cardinality({k \in DOMAIN repositories :
                               ~(repositories[k].health_score > 60)})]

\* calculate_overall_status: status_counts after the loop over repositories.values()
StatusCounts(repositories) ==
    [success |-> Cardinality({k \in DOMAIN repositories :
                                 repositories[k].health_score >= 80}),
     warning |-> Cardinality({k \in DOMAIN repositories :
                                 /\ ~(repositories[k].health_score >= 80)
                                 /\ repositories[k].health_score >= 60}),
     error |-> Cardinality({k \in DOMAIN repositories :
                               ~(repositories[k].health_score >= 60)})]

\* ReleaseMonitor.calculate_overall_status; repositories maps keys to records
\* with a health_score
CalculateOverallStatus(repositories) ==
    IF StatusCounts(repositories).error > 0 THEN "error"
    ELSE IF StatusCounts(repositories).warning > 0 THEN "warning"
    ELSE "success"

\* health scores handed to calculate_overall_status, the bucket borders among them
ScoreSamples == {0, 50, 59, 60, 65, 79, 80, 85, 90, 100}

\* repo_status records handed to calculate_health_score (health_score is 0
\* when get_repository_status calls it)
RepoStatuses ==
    [build_status : CheckStatuses, test_status : CheckStatuses,
     deployment_status : CheckStatuses, health_score : {0}]

\* repositories handed to calculate_overall_status: up to MaxRepositories
\* entries, keyed 1, 2, ..
RepositoryScores ==
    UNION {[1..n -> [health_score : ScoreSamples]] : n \in 0..MaxRepositories}

HealthInit ==
    /\ hsPc = "call"
    /\ \/ hsCall = "calculate_health_score" /\ hsArg \in RepoStatuses
       \/ hsCall = "calculate_overall_status" /\ hsArg \in RepositoryScores
    /\ hsResult = "none"
    /\ OthersIdle("health")

\* calculate_health_score(repo_status)
CallCalculateHealthScore ==
    /\ hsPc = "call"
    /\ hsCall = "calculate_health_score"
    /\ hsResult' = CalculateHealthScore(hsArg)
    /\ hsPc' = "returned"
    /\ UNCHANGED <<hsCall, hsArg, notHealthVars>>

\* calculate_overall_status(repositories)
CallCalculateOverallStatus ==
    /\ hsPc = "call"
    /\ hsCall = "calculate_overall_status"
    /\ hsResult' = CalculateOverallStatus(hsArg)
    /\ hsPc' = "returned"
    /\ UNCHANGED <<hsCall, hsArg, notHealthVars>>

HealthNext == CallCalculateHealthScore \/ CallCalculateOverallStatus

SpecHealth == HealthInit /\ [][HealthNext]_vars

----------------------------------------------------------------------------
(* AutoRollback.detect_issues *)

\* the 'severity' of a detected problem
IssueSeverities == {"high", "medium", "low"}

\* versions handed to detect_issues; 1.1.0 is the one check_build_issues
\* simulates a failed build for
DetectVersions ==
    { <<"1", ".", "0", ".", "0">>,
      <<"1", ".", "1", ".", "0">>,
      <<"2", ".", "0", ".", "0">> }

\* what the detection behind one of the four check_*_issues methods can find:
\* nothing, or one problem of some severity (the bodies in the source are
\* placeholders for the detection and find nothing)
FoundIssues(type) ==
    {<<>>} \cup {<<[type |-> type, severity |-> sev, repository |-> "vabhub-core"]>> :
                    sev \in IssueSeverities}

\* check_build_issues: what was found, then the simulated problem of 1.1.0
CheckBuildIssues(version, found) ==
    IF version = <<"1", ".", "1", ".", "0">>
    THEN found \o <<[type |-> "build", severity |-> "high", repository |-> "vabhub-core"]>>
    ELSE found

DetermineSeverityMediumFirst(problems) ==
    IF problems = <<>> THEN "none"
    ELSE IF \E k \in 1..Len(problems) : problems[k].severity = "medium" THEN "high"
    ELSE IF \E k \in 1..Len(problems) : problems[k].severity = "high" THEN "critical"
    ELSE "low"

\* AutoRollback.determine_severity
DetermineSeverity(problems) ==
    IF problems = <<>> THEN "none"
    ELSE IF \E k \in 1..Len(problems) : problems[k].severity = "high" THEN "critical"
    ELSE IF \E k \in 1..Len(problems) : problems[k].severity = "medium" THEN "high"
    ELSE "low"

\* AutoRollback.generate_recommendation: recommendations.get(severity, 'monitor')
GenerateRecommendation(severity) ==
    CASE severity = "critical" -> "immediate_rollback"
      [] severity = "high" -> "recommended_rollback"
      [] severity = "low" -> "monitor"
      [] severity = "none" -> "continue"
      [] OTHER -> "monitor"

\* AutoRollback.detect_issues(version); the four arguments after it are what
\* the build, test, deployment and dependency detection found
DetectIssues(version, build, test, deployment, dependency) ==
    LET problems == CheckBuildIssues(version, build) \o test \o deployment \o dependency
    IN  [version |-> version,
         problems |-> problems,
         severity |-> DetermineSeverity(problems),
         recommendation |-> GenerateRecommendation(DetermineSeverity(problems))]

DetectInit ==
    /\ dtPc = "call"
    /\ dtVersion \in DetectVersions
    /\ dtIssues = NoIssues
    /\ OthersIdle("detect")

\* issues = self.detect_issues(args.version)
CallDetectIssues ==
    /\ dtPc = "call"
    /\ \E build \in FoundIssues("build"), test \in FoundIssues("test"),
          deployment \in FoundIssues("deployment"),
          dependency \in FoundIssues("dependency") :
          dtIssues' = DetectIssues(dtVersion, build, test, deployment, dependency)
    /\ dtPc' = "returned"
    /\ UNCHANGED <<dtVersion, notDetectVars>>

DetectNext == CallDetectIssues

SpecDetect == DetectInit /\ [][DetectNext]_vars

----------------------------------------------------------------------------
(* AutoRollback.assess_rollback_risk and estimate_rollback_duration *)

\* versions a rollback plan is built for
RiskVersions ==
    { <<"1", ".", "0", ".", "0">>,
      <<"1", ".", "1", ".", "0">>,
      <<"2", ".", "0", ".", "0">>,
      <<"1", "0", ".", "2", ".", "0">>,
      <<"0", "1", ".", "5", ".", "0">>,
      <<"v", "1", ".", "0", ".", "0">>,
      <<"l", "a", "t", "e", "s", "t">> }

RECURSIVE DigitsValue(_)
\* the value of a list of decimal digits, leading zeros allowed
DigitsValue(t) ==
    IF t = <<>> THEN 0
    ELSE 10 * DigitsValue(Slice(t, 1, Len(t)))
            + (CASE t[Len(t)] = "0" -> 0 [] t[Len(t)] = "1" -> 1 [] t[Len(t)] = "2" -> 2
                 [] t[Len(t)] = "3" -> 3 [] t[Len(t)] = "4" -> 4 [] t[Len(t)] = "5" -> 5
                 [] t[Len(t)] = "6" -> 6 [] t[Len(t)] = "7" -> 7 [] t[Len(t)] = "8" -> 8
                 [] t[Len(t)] = "9" -> 9)

\* int(t) of a string without blanks and underscores: an optional sign and
\* decimal digits; anything else raises ValueError (ok is FALSE)
IntOf(t) ==
    LET signed == Len(t) >= 1 /\ t[1] \in {"+", "-"}
        digits == IF signed THEN Slice(t, 2, Len(t) + 1) ELSE t
    IN  IF ~IsDigit(digits) THEN [ok |-> FALSE, value |-> 0]
        ELSE IF signed /\ t[1] = "-" THEN [ok |-> TRUE, value |-> 0 - DigitsValue(digits)]
        ELSE [ok |-> TRUE, value |-> DigitsValue(digits)]

AssessRollbackRiskAtLeastThree(plan) ==
    LET from_major == IntOf(Split(plan.from_version, ".")[1])
        to_major == IntOf(Split(plan.to_version, ".")[1])
        repo_count == Cardinality(plan.repositories)
        risk_factors == (IF from_major.value # to_major.value THEN 3 ELSE 0)
                           + (IF repo_count >= 3 THEN 2 ELSE 0)
    IN  IF ~from_major.ok \/ ~to_major.ok THEN "ValueError"
        ELSE IF risk_factors >= 3 THEN "high"
        ELSE IF risk_factors >= 1 THEN "medium"
        ELSE "low"

\* AutoRollback.assess_rollback_risk(plan): the risk level it returns, or
\* ValueError when int() rejects the text before the first dot of a version;
\* plan.repositories is the set of keys of plan['repositories']
AssessRollbackRisk(plan) ==
    LET from_major == IntOf(Split(plan.from_version, ".")[1])
        to_major == IntOf(Split(plan.to_version, ".")[1])
        repo_count == Cardinality(plan.repositories)
        risk_factors == (IF from_major.value # to_major.value THEN 3 ELSE 0)
                           + (IF repo_count > 3 THEN 2 ELSE 0)
    IN  IF ~from_major.ok \/ ~to_major.ok THEN "ValueError"
        ELSE IF risk_factors >= 3 THEN "high"
        ELSE IF risk_factors >= 1 THEN "medium"
        ELSE "low"

EstimateRollbackDurationFlat(plan) ==
    5 + Cardinality(plan.repositories) * 2
      + (CASE plan.risk_assessment = "low" -> 0
           [] plan.risk_assessment = "medium" -> 5
           [] plan.risk_assessment = "high" -> 5
           [] OTHER -> 0)

\* AutoRollback.estimate_rollback_duration(plan), in minutes
EstimateRollbackDuration(plan) ==
    5 + Cardinality(plan.repositories) * 2
      + (CASE plan.risk_assessment = "low" -> 0
           [] plan.risk_assessment = "medium" -> 5
           [] plan.risk_assessment = "high" -> 10
           [] OTHER -> 0)

\* the plan of generate_rollback_plan before its assessment: the repositories
\* filled in, 'risk_assessment': 'low', 'estimated_duration': 0
RiskInit ==
    /\ rkPc = "call"
    /\ rkPlan \in [from_version : RiskVersions, to_version : RiskVersions,
                   repositories : SUBSET RepoSet,
                   risk_assessment : {"low"}, estimated_duration : {0}]
    /\ rkCalls = <<>>
    /\ OthersIdle("risk")

\* plan['risk_assessment'] = self.assess_rollback_risk(plan)
CallAssessRollbackRisk ==
    /\ rkPc = "call"
    /\ rkCalls = <<>>
    /\ rkCalls' = <<"assess_rollback_risk">>
    /\ IF AssessRollbackRisk(rkPlan) = "ValueError"
       THEN rkPc' = "raised" /\ UNCHANGED rkPlan
       ELSE /\ rkPlan' = [rkPlan EXCEPT !.risk_assessment = AssessRollbackRisk(rkPlan)]
            /\ UNCHANGED rkPc
    /\ UNCHANGED notRiskVars

\* plan['estimated_duration'] = self.estimate_rollback_duration(plan)
CallEstimateRollbackDuration ==
    /\ rkPc = "call"
    /\ rkCalls' = Append(rkCalls, "estimate_rollback_duration")
    /\ rkPlan' = [rkPlan EXCEPT !.estimated_duration = EstimateRollbackDuration(rkPlan)]
    /\ rkPc' = "returned"
    /\ UNCHANGED notRiskVars

RiskNext == CallAssessRollbackRisk \/ CallEstimateRollbackDuration

SpecRisk == RiskInit /\ [][RiskNext]_vars

----------------------------------------------------------------------------
(* AutoRollback.verify_rollback *)

\* versions get_current_version can observe for a repository (the body in the
\* source is a placeholder for the query and answers "1.0.0")
ObservedVersions ==
    { <<"1", ".", "0", ".", "0">>,
      <<"1", ".", "1", ".", "0">>,
      <<"v", "1", ".", "0", ".", "0">> }

\* the to_version arguments of verify_rollback
VerifyTargets ==
    { <<"1", ".", "0", ".", "0">>,
      <<"1", ".", "1", ".", "0">> }

\* AutoRollback.get_current_version(repo), `observed` what the query would find
GetCurrentVersion(repo, observed) == observed[repo]

VerifyResultHealthOnly(valid, services_healthy) == services_healthy

\* return all_valid and services_healthy
VerifyResult(valid, services_healthy) == valid /\ services_healthy

\* all_valid = True; for repo in self.coordinator.repos:
VerifyInit ==
    /\ vfPc = "for"
    /\ vfTo \in VerifyTargets
    /\ vfObserved \in [RepoSet -> ObservedVersions]
    /\ vfHealthy \in BOOLEAN
    /\ vfRepo = 1
    /\ vfChecked = <<>>
    /\ all_valid = TRUE
    /\ vfResult = "none"
    /\ OthersIdle("verify")

\* one pass of the for loop: the version of the repository is compared with
\* to_version; a difference clears all_valid and the loop goes on
VerifyRepositoryVersion ==
    /\ vfPc = "for"
    /\ LET repo == Repos[vfRepo]
           current == GetCurrentVersion(repo, vfObserved)
       IN  /\ all_valid' = IF current = vfTo THEN all_valid ELSE FALSE
           /\ vfChecked' = Append(vfChecked, repo)
    /\ IF vfRepo < Len(Repos)
       THEN vfRepo' = vfRepo + 1 /\ UNCHANGED vfPc
       ELSE vfPc' = "health" /\ UNCHANGED vfRepo
    /\ UNCHANGED <<vfTo, vfObserved, vfHealthy, vfResult, notVerifyVars>>

\* services_healthy = self.check_services_health(); unhealthy services clear
\* all_valid; return all_valid and services_healthy
VerifyServicesHealth ==
    /\ vfPc = "health"
    /\ all_valid' = IF vfHealthy THEN all_valid ELSE FALSE
    /\ vfResult' = IF VerifyResult(all_valid', vfHealthy) THEN "True" ELSE "False"
    /\ vfPc' = "returned"
    /\ UNCHANGED <<vfTo, vfObserved, vfHealthy, vfRepo, vfChecked, notVerifyVars>>

VerifyNext == VerifyRepositoryVersion \/ VerifyServicesHealth

SpecVerify == VerifyInit /\ [][VerifyNext]_vars

----------------------------------------------------------------------------
(* ReleaseMonitor.get_release_status and real_time_monitor *)

\* the durations real_time_monitor is started with, in seconds
Durations == {0 - 5, 0, 25}

\* what the three checks report for one repository while the monitor polls:
\* all well, the build failed, the deployment failed, all three failed
MonitorProbes ==
    { [build_status |-> "success", test_status |-> "success", deployment_status |-> "success"],
      [build_status |-> "failure", test_status |-> "success", deployment_status |-> "success"],
      [build_status |-> "success", test_status |-> "success", deployment_status |-> "failure"],
      [build_status |-> "failure", test_status |-> "failure", deployment_status |-> "failure"] }

\* ReleaseMonitor.get_repository_status, `probe` the answers of the three checks
GetRepositoryStatus(probe) ==
    [build_status |-> probe.build_status,
     test_status |-> probe.test_status,
     deployment_status |-> probe.deployment_status,
     health_score |->
        CalculateHealthScore([build_status |-> probe.build_status,
                              test_status |-> probe.test_status,
                              deployment_status |-> probe.deployment_status,
                              health_score |-> 0])]

\* ReleaseMonitor.identify_issues: build failed, test failed, deployment failed
IdentifyIssues(repo_status) ==
    (IF repo_status.build_status # "success" THEN <<"build failed">> ELSE <<>>)
       \o (IF repo_status.test_status # "success" THEN <<"test failed">> ELSE <<>>)
       \o (IF repo_status.deployment_status # "success"
           THEN <<"deployment failed">> ELSE <<>>)

RECURSIVE TotalScore(_, _)
\* collect_health_indicators: total_score after the repos of `list`
TotalScore(repositories, list) ==
    IF list = <<>> THEN 0
    ELSE repositories[Head(list)].health_score + TotalScore(repositories, Tail(list))

RECURSIVE ProblemRepositories(_, _)
\* collect_health_indicators: indicators['problem_repositories']
ProblemRepositories(repositories, list) ==
    IF list = <<>> THEN <<>>
    ELSE IF repositories[Head(list)].health_score >= 80
    THEN ProblemRepositories(repositories, Tail(list))
    ELSE <<[name |-> Head(list),
            health_score |-> repositories[Head(list)].health_score,
            issues |-> IdentifyIssues(repositories[Head(list)])]>>
            \o ProblemRepositories(repositories, Tail(list))

\* ReleaseMonitor.collect_health_indicators. Every health score is a multiple
\* of 10 and there are 5 repositories, so both quotients are whole numbers and
\* the float division of the source is exact.
CollectHealthIndicators(repositories) ==
    [average_health_score |-> TotalScore(repositories, Repos) \div Len(Repos),
     success_rate |->
        (Cardinality({r \in RepoSet : repositories[r].health_score >= 80}) * 100)
            \div Len(Repos),
     problem_repositories |-> ProblemRepositories(repositories, Repos)]

\* ReleaseMonitor.get_release_status, probes[r] the answers of the checks for r
GetReleaseStatus(probes) ==
    LET repositories == [r \in RepoSet |-> GetRepositoryStatus(probes[r])]
    IN  [repositories |-> repositories,
         overall_status |-> CalculateOverallStatus(repositories),
         health_indicators |-> CollectHealthIndicators(repositories)]

\* ReleaseMonitor.monitor_intervals, in seconds
MonitorIntervals == [high |-> 10, medium |-> 30, low |-> 60]

DetermineMonitorIntervalReversed(status) ==
    IF status.overall_status = "error" THEN MonitorIntervals.low
    ELSE IF status.overall_status = "warning" THEN MonitorIntervals.medium
    ELSE MonitorIntervals.high

\* ReleaseMonitor.determine_monitor_interval
DetermineMonitorInterval(status) ==
    IF status.overall_status = "error" THEN MonitorIntervals.high
    ELSE IF status.overall_status = "warning" THEN MonitorIntervals.medium
    ELSE MonitorIntervals.low

CheckAlertsErrorOnly(status) ==
    IF status.overall_status = "error" THEN {"critical"} ELSE {}

\* ReleaseMonitor.check_alerts: the alerts it prints
CheckAlerts(status) ==
    (IF status.overall_status = "error" THEN {"critical"} ELSE {})
       \cup (IF status.health_indicators.average_health_score < 70
             THEN {"low average"} ELSE {})

WhileTestInclusive(clock, end_time) == clock <= end_time

\* while datetime.now() < end_time
WhileTest(clock, end_time) == clock < end_time

MonitorInit ==
    /\ moPc = "start"
    /\ moDuration \in Durations
    /\ moStart = 0
    /\ moEnd = 0
    /\ moNow = 0
    /\ moIteration = 0
    /\ moIterStart = 0
    /\ moProbes = <<>>
    /\ moStatus = NoStatus
    /\ moAlerts = {}
    /\ moInterval = 0
    /\ moReports = 0
    /\ OthersIdle("monitor")

\* start_time = datetime.now(); end_time = start_time + timedelta(seconds=duration);
\* iteration = 0; the clock may move before the first while test reads it
MonitorStart ==
    /\ moPc = "start"
    /\ moStart' = moNow
    /\ moEnd' = moNow + moDuration
    /\ moIteration' = 0
    /\ \E passed \in 0..MaxDelay : moNow' = moNow + passed
    /\ moPc' = "loop"
    /\ UNCHANGED <<moDuration, moIterStart, moProbes, moStatus, moAlerts, moInterval,
                   moReports, notMonitorVars>>

\* the while test holds: iteration += 1; status = get_release_status(version);
\* display_status; check_alerts(status); interval = determine_monitor_interval(status)
MonitorIterate ==
    /\ moPc = "loop"
    /\ WhileTest(moNow, moEnd)
    /\ moIteration' = moIteration + 1
    /\ moIterStart' = moNow
    /\ moProbes' \in [RepoSet -> MonitorProbes]
    /\ moStatus' = GetReleaseStatus(moProbes')
    /\ moAlerts' = CheckAlerts(moStatus')
    /\ moInterval' = DetermineMonitorInterval(moStatus')
    /\ moPc' = "sleep"
    /\ UNCHANGED <<moDuration, moStart, moEnd, moNow, moReports, notMonitorVars>>

\* time.sleep(interval): the clock moves by the interval or a little more;
\* status and interval are assigned anew before they are read again
MonitorSleep ==
    /\ moPc = "sleep"
    /\ \E passed \in 0..MaxDelay : moNow' = moNow + moInterval + passed
    /\ moProbes' = <<>>
    /\ moStatus' = NoStatus
    /\ moAlerts' = {}
    /\ moInterval' = 0
    /\ moPc' = "loop"
    /\ UNCHANGED <<moDuration, moStart, moEnd, moIteration, moIterStart, moReports,
                   notMonitorVars>>

\* the while test fails: the loop is left
MonitorExit ==
    /\ moPc = "loop"
    /\ ~WhileTest(moNow, moEnd)
    /\ moPc' = "report"
    /\ UNCHANGED <<moDuration, moStart, moEnd, moNow, moIteration, moIterStart, moProbes,
                   moStatus, moAlerts, moInterval, moReports, notMonitorVars>>

\* final_report = self.generate_final_report(version, start_time);
\* display_final_report(final_report): the report is printed and dropped, the
\* status it polls is local to generate_final_report
MonitorFinalReport ==
    /\ moPc = "report"
    /\ moReports' = moReports + 1
    /\ moPc' = "done"
    /\ UNCHANGED <<moDuration, moStart, moEnd, moNow, moIteration, moIterStart, moProbes,
                   moStatus, moAlerts, moInterval, notMonitorVars>>

MonitorNext ==
    \/ MonitorStart
    \/ MonitorIterate
    \/ MonitorSleep
    \/ MonitorExit
    \/ MonitorFinalReport

SpecMonitor == MonitorInit /\ [][MonitorNext]_vars

\* the monitor is a running process: a step it can take is taken
SpecMonitorLive == MonitorInit /\ [][MonitorNext]_vars /\ WF_vars(MonitorNext)

----------------------------------------------------------------------------
(* release_monitor.py main without a mode: the current status is shown once *)

\* what the three checks can report for one repository: each of them success
\* or not
StatusProbes ==
    [build_status : {"success", "failure"},
     test_status : {"success", "failure"},
     deployment_status : {"success", "failure"}]

StatusInit ==
    /\ moPc = "status"
    /\ moDuration = 0
    /\ moStart = 0
    /\ moEnd = 0
    /\ moNow = 0
    /\ moIteration = 0
    /\ moIterStart = 0
    /\ moProbes = <<>>
    /\ moStatus = NoStatus
    /\ moAlerts = {}
    /\ moInterval = 0
    /\ moReports = 0
    /\ OthersIdle("monitor")

\* status = monitor.get_release_status(args.version); monitor.display_status(status, 1)
ShowCurrentStatus ==
    /\ moPc = "status"
    /\ moProbes' \in [RepoSet -> StatusProbes]
    /\ moStatus' = GetReleaseStatus(moProbes')
    /\ moPc' = "shown"
    /\ UNCHANGED <<moDuration, moStart, moEnd, moNow, moIteration, moIterStart, moAlerts,
                   moInterval, moReports, notMonitorVars>>

StatusNext == ShowCurrentStatus

SpecStatus == StatusInit /\ [][StatusNext]_vars

----------------------------------------------------------------------------
(* AutoRollback.generate_rollback_plan and execute_rollback *)

RollbackStepsRebuildFirst == <<"rebuild", "stop service", "checkout tag", "start service">>

\* the 'steps' of generate_repository_rollback_plan, by name:
\* stop the running service, check out tags/v<to_version>, rebuild, start
RollbackSteps == <<"stop service", "checkout tag", "rebuild", "start service">>

VerificationChecksWithoutHealth == <<"service status", "version">>

\* its 'verification_checks': docker-compose ps, git describe --tags, curl /health
VerificationChecks == <<"service status", "version", "health">>

\* the versions a rollback of an arbitrary dependency table is planned for
DefaultFromVersion == <<"1", ".", "1", ".", "0">>
DefaultToVersion == <<"1", ".", "0", ".", "0">>

\* either any dependency table with one pair of versions, or the configured
\* table with any pair of versions
RollbackInit ==
    /\ \/ /\ dependencies \in Tables
          /\ rbFrom = DefaultFromVersion
          /\ rbTo = DefaultToVersion
       \/ /\ dependencies = ConfiguredDependencies
          /\ rbFrom \in RiskVersions
          /\ rbTo \in RiskVersions
    /\ rbPc = "start"
    /\ rbDryRun \in BOOLEAN
    /\ rbPlan = NoRollbackPlan
    /\ rollback_order = <<>>
    /\ rbRepo = 0
    /\ rbItem = 0
    /\ rbLog = <<>>
    /\ rbResult = "none"
    /\ OthersIdle("rollback")

FilledRollbackPlanWithoutEntries(from_version, to_version, order) ==
    [from_version |-> from_version,
     to_version |-> to_version,
     repositories |-> {},
     risk_assessment |-> "low",
     estimated_duration |-> 0]

\* the plan after the loop over rollback_order: plan['repositories'] has one
\* entry per repo of the order; 'risk_assessment': 'low', 'estimated_duration': 0
FilledRollbackPlan(from_version, to_version, order) ==
    [from_version |-> from_version,
     to_version |-> to_version,
     repositories |-> {order[i] : i \in 1..Len(order)},
     risk_assessment |-> "low",
     estimated_duration |-> 0]

\* plan['risk_assessment'] = self.assess_rollback_risk(plan)
\* plan['estimated_duration'] = self.estimate_rollback_duration(plan)
AssessedRollbackPlan(filled) ==
    LET assessed == [filled EXCEPT !.risk_assessment = AssessRollbackRisk(filled)]
    IN  [assessed EXCEPT !.estimated_duration = EstimateRollbackDuration(assessed)]

\* generate_rollback_plan(from_version, to_version): the order, the entry of
\* each repo, the risk and the duration; a ValueError of assess_rollback_risk
\* leaves the caller without a plan
GenerateRollbackPlan ==
    /\ rbPc = "start"
    /\ LET order == DetermineRollbackOrder(dependencies)
           filled == FilledRollbackPlan(rbFrom, rbTo, order)
       IN  IF AssessRollbackRisk(filled) = "ValueError"
           THEN /\ rbPc' = "raised"
                /\ UNCHANGED <<rollback_order, rbPlan>>
           ELSE /\ rbPc' = "planned"
                /\ rollback_order' = order
                /\ rbPlan' = AssessedRollbackPlan(filled)
    /\ UNCHANGED <<dependencies, notRollbackVars, rbDryRun, rbFrom, rbTo, rbRepo, rbItem,
                   rbLog, rbResult>>

\* if dry_run: self.display_rollback_plan(plan); return True
ExecuteRollbackDryRun ==
    /\ rbPc = "planned"
    /\ rbDryRun
    /\ rbResult' = "True"
    /\ rbPc' = "returned"
    /\ UNCHANGED <<dependencies, notRollbackVars, rbDryRun, rbFrom, rbTo, rbPlan,
                   rollback_order, rbRepo, rbItem, rbLog>>

\* for repo in plan['rollback_order']: the first repo
ExecuteRollbackLive ==
    /\ rbPc = "planned"
    /\ ~rbDryRun
    /\ rbRepo' = 1
    /\ rbItem' = 1
    /\ rbPc' = "steps"
    /\ UNCHANGED <<dependencies, notRollbackVars, rbDryRun, rbFrom, rbTo, rbPlan,
                   rollback_order, rbLog, rbResult>>

\* for step in repo_plan['steps']: the step is printed as done
RunRollbackStep ==
    /\ rbPc = "steps"
    /\ rbLog' = Append(rbLog, <<rollback_order[rbRepo], "step", RollbackSteps[rbItem]>>)
    /\ IF rbItem < Len(RollbackSteps)
       THEN rbItem' = rbItem + 1 /\ rbPc' = "steps"
       ELSE rbItem' = 1 /\ rbPc' = "checks"
    /\ UNCHANGED <<dependencies, notRollbackVars, rbDryRun, rbFrom, rbTo, rbPlan,
                   rollback_order, rbRepo, rbResult>>

\* for check in repo_plan['verification_checks']: the check is printed as passed;
\* after the last check of the last repo: return True
RunVerificationCheck ==
    /\ rbPc = "checks"
    /\ rbLog' = Append(rbLog, <<rollback_order[rbRepo], "check", VerificationChecks[rbItem]>>)
    /\ IF rbItem < Len(VerificationChecks)
       THEN /\ rbItem' = rbItem + 1
            /\ UNCHANGED <<rbPc, rbRepo, rbResult>>
       ELSE IF rbRepo < Len(rollback_order)
            THEN /\ rbRepo' = rbRepo + 1
                 /\ rbItem' = 1
                 /\ rbPc' = "steps"
                 /\ UNCHANGED rbResult
            ELSE /\ rbPc' = "returned"
                 /\ rbResult' = "True"
                 /\ UNCHANGED <<rbRepo, rbItem>>
    /\ UNCHANGED <<dependencies, notRollbackVars, rbDryRun, rbFrom, rbTo, rbPlan,
                   rollback_order>>

RollbackNext ==
    \/ GenerateRollbackPlan
    \/ ExecuteRollbackDryRun
    \/ ExecuteRollbackLive
    \/ RunRollbackStep
    \/ RunVerificationCheck

SpecRollback == RollbackInit /\ [][RollbackNext]_vars

\* the repos execute_rollback has completely rolled back
RolledBack ==
    IF rbPc = "returned" /\ ~rbDryRun
    THEN {rollback_order[i] : i \in 1..Len(rollback_order)}
    ELSE {rollback_order[i] : i \in 1..(rbRepo - 1)}

\* the three executors: AutoRelease.execute_release,
\* ReleaseCoordinator.execute_release_plan and AutoRollback.execute_rollback
SpecExecutors ==
    /\ AutoReleaseInit \/ CoordInit \/ RollbackInit
    /\ [][AutoReleaseNext \/ CoordNext \/ RollbackNext]_vars

----------------------------------------------------------------------------
(* AutoRollback.main: detect mode, verify mode, rollback mode *)

\* args.version of the rollback command
MainVersions ==
    { <<"1", ".", "1", ".", "0">>,
      <<"2", ".", "0", ".", "0">>,
      <<"v", "1", ".", "1", ".", "0">> }

\* args.to_version: not given (None), empty, or a version
MainToVersions == {None, <<>>, <<"1", ".", "0", ".", "0">>}

\* not args.to_version
NotGiven(to_version) == to_version = None \/ to_version = <<>>

MainModeVerifyFirst(detect, verify) ==
    IF verify THEN "verify"
    ELSE IF detect THEN "detect"
    ELSE "rollback"

\* if args.detect: ... elif args.verify: ... else: ...
MainMode(detect, verify) ==
    IF detect THEN "detect"
    ELSE IF verify THEN "verify"
    ELSE "rollback"

MainExitCodeAlwaysZero(success) == 0

\* return 0 if success else 1
MainExitCode(success) == IF success THEN 0 ELSE 1

RollbackMainInit ==
    /\ rmPc = "main"
    /\ rmDetect \in BOOLEAN
    /\ rmVerify \in BOOLEAN
    /\ rmDryRun \in BOOLEAN
    /\ rmVersion \in MainVersions
    /\ rmToVersion \in MainToVersions
    /\ rmExit = -1
    /\ OthersIdle("main")

\* verify_rollback(..., to_version) is entered: all_valid = True, the for loop
\* is at the first repo; what the version query and the health check will
\* observe is fixed here
EnterVerifyRollback(to_version) ==
    /\ vfPc' = "for"
    /\ vfTo' = to_version
    /\ vfObserved' \in [RepoSet -> ObservedVersions]
    /\ vfHealthy' \in BOOLEAN
    /\ vfRepo' = 1
    /\ vfChecked' = <<>>
    /\ all_valid' = TRUE
    /\ vfResult' = "none"

\* if args.detect: issues = self.detect_issues(args.version)
MainDetect ==
    /\ rmPc = "main"
    /\ MainMode(rmDetect, rmVerify) = "detect"
    /\ dtPc' = "call"
    /\ dtVersion' = rmVersion
    /\ rmPc' = "detect"
    /\ UNCHANGED <<notRollbackCommandVars, rollbackVars, verifyVars, dtIssues,
                   rmDetect, rmVerify, rmDryRun, rmVersion, rmToVersion, rmExit>>

\* the detection result is printed; return 0
MainDetectReturn ==
    /\ rmPc = "detect"
    /\ dtPc = "returned"
    /\ rmExit' = 0
    /\ rmPc' = "returned"
    /\ UNCHANGED <<notRollbackCommandVars, rollbackVars, verifyVars, detectVars,
                   rmDetect, rmVerify, rmDryRun, rmVersion, rmToVersion>>

\* elif args.verify: success = self.verify_rollback(args.from_version, args.to_version)
MainVerify ==
    /\ rmPc = "main"
    /\ MainMode(rmDetect, rmVerify) = "verify"
    /\ EnterVerifyRollback(rmToVersion)
    /\ rmPc' = "verify"
    /\ UNCHANGED <<notRollbackCommandVars, rollbackVars, detectVars,
                   rmDetect, rmVerify, rmDryRun, rmVersion, rmToVersion, rmExit>>

\* return 0 if success else 1
MainVerifyReturn ==
    /\ rmPc = "verify"
    /\ vfPc = "returned"
    /\ rmExit' = MainExitCode(vfResult = "True")
    /\ rmPc' = "returned"
    /\ UNCHANGED <<notRollbackCommandVars, rollbackVars, verifyVars, detectVars,
                   rmDetect, rmVerify, rmDryRun, rmVersion, rmToVersion>>

\* else: if not args.to_version: return 1
MainMissingTarget ==
    /\ rmPc = "main"
    /\ MainMode(rmDetect, rmVerify) = "rollback"
    /\ NotGiven(rmToVersion)
    /\ rmExit' = 1
    /\ rmPc' = "returned"
    /\ UNCHANGED <<notRollbackCommandVars, rollbackVars, verifyVars, detectVars,
                   rmDetect, rmVerify, rmDryRun, rmVersion, rmToVersion>>

\* plan = self.generate_rollback_plan(args.version, args.to_version) is entered
MainEnterRollback ==
    /\ rmPc = "main"
    /\ MainMode(rmDetect, rmVerify) = "rollback"
    /\ ~NotGiven(rmToVersion)
    /\ rbPc' = "start"
    /\ rbFrom' = rmVersion
    /\ rbTo' = rmToVersion
    /\ rbDryRun' = rmDryRun
    /\ rmPc' = "rollback"
    /\ UNCHANGED <<notRollbackCommandVars, verifyVars, detectVars,
                   rbPlan, rollback_order, rbRepo, rbItem, rbLog, rbResult,
                   rmDetect, rmVerify, rmDryRun, rmVersion, rmToVersion, rmExit>>

\* if args.dry_run: self.display_rollback_plan(plan); return 0
MainDisplayPlan ==
    /\ rmPc = "rollback"
    /\ rbPc = "planned"
    /\ rmDryRun
    /\ rmExit' = 0
    /\ rmPc' = "returned"
    /\ UNCHANGED <<notRollbackCommandVars, rollbackVars, verifyVars, detectVars,
                   rmDetect, rmVerify, rmDryRun, rmVersion, rmToVersion>>

\* success = self.execute_rollback(plan, dry_run=args.dry_run) has returned:
\* if success and not args.dry_run: verify_rollback(args.version, args.to_version)
\* is entered; otherwise return 0 if success else 1
MainAfterExecute ==
    /\ rmPc = "rollback"
    /\ rbPc = "returned"
    /\ IF rbResult = "True" /\ ~rmDryRun
       THEN /\ EnterVerifyRollback(rmToVersion)
            /\ rmPc' = "verify_after"
            /\ UNCHANGED rmExit
       ELSE /\ rmExit' = MainExitCode(rbResult = "True")
            /\ rmPc' = "returned"
            /\ UNCHANGED verifyVars
    /\ UNCHANGED <<notRollbackCommandVars, rollbackVars, detectVars,
                   rmDetect, rmVerify, rmDryRun, rmVersion, rmToVersion>>

\* return 0 if verification_success else 1
MainVerifyAfterReturn ==
    /\ rmPc = "verify_after"
    /\ vfPc = "returned"
    /\ rmExit' = MainExitCode(vfResult = "True")
    /\ rmPc' = "returned"
    /\ UNCHANGED <<notRollbackCommandVars, rollbackVars, verifyVars, detectVars,
                   rmDetect, rmVerify, rmDryRun, rmVersion, rmToVersion>>

\* main and the methods it calls; in dry-run mode main shows the plan itself
\* and does not call execute_rollback
RollbackMainNext ==
    \/ MainDetect
    \/ CallDetectIssues
    \/ MainDetectReturn
    \/ MainVerify
    \/ MainVerifyReturn
    \/ MainMissingTarget
    \/ MainEnterRollback
    \/ GenerateRollbackPlan
    \/ MainDisplayPlan
    \/ ExecuteRollbackLive
    \/ RunRollbackStep
    \/ RunVerificationCheck
    \/ MainAfterExecute
    \/ VerifyRepositoryVersion
    \/ VerifyServicesHealth
    \/ MainVerifyAfterReturn

SpecRollbackMain == RollbackMainInit /\ [][RollbackMainNext]_vars

----------------------------------------------------------------------------
(* VersionManager.update_all_versions with set_version and get_current_version *)

\* self.repos[repo]["type"]
RepoType ==
    [r \in RepoSet |->
        CASE r = "vabhub-core" -> "python"
          [] r = "vabhub-frontend" -> "javascript"
          [] r = "vabhub-plugins" -> "python"
          [] r = "vabhub-resources" -> "resources"
          [] r = "vabhub-deploy" -> "deploy"]

\* the new_version arguments: plain versions of two majors, a v-prefixed one,
\* one with a trailing newline (validate_version_format accepts it), an
\* invalid one
UpdateVersions ==
    { <<"1", ".", "0", ".", "0">>,
      <<"2", ".", "0", ".", "0">>,
      <<"v", "2", ".", "0", ".", "0">>,
      <<"1", ".", "2", ".", "3", "\n">>,
      <<"1", ".", "2">> }

\* a version file: the repository directory with its file is missing, or the
\* file holds no version (get_current_version reads None), or a version
VersionFiles ==
    { [exists |-> FALSE, version |-> None],
      [exists |-> TRUE, version |-> None],
      [exists |-> TRUE, version |-> <<"1", ".", "0", ".", "0">>],
      [exists |-> TRUE, version |-> <<"3", ".", "0", ".", "0">>] }

RECURSIVE Strip(_)
\* str.strip() of a string whose only white space is the newline
Strip(s) ==
    IF s = <<>> THEN s
    ELSE IF Head(s) = "\n" THEN Strip(Tail(s))
    ELSE IF s[Len(s)] = "\n" THEN Strip(Slice(s, 1, Len(s)))
    ELSE s

\* VersionManager.get_current_version(repo) on the files `files`
ReadVersion(repo, files) ==
    IF ~files[repo].exists THEN None ELSE files[repo].version

\* what set_version(repo, new_version) leaves in the file of an existing
\* repository: setup.py has its version='...' replaced where there is one,
\* package.json gets the version key, a VERSION file is rewritten with
\* new_version and a newline and is read through strip()
WrittenVersion(repo, new_version, file) ==
    CASE RepoType[repo] = "python" ->
            IF file.version = None THEN None ELSE new_version
      [] RepoType[repo] = "javascript" -> new_version
      [] OTHER ->
            IF Strip(new_version) = <<>> THEN None ELSE Strip(new_version)

\* VersionManager.set_version(repo, new_version): its return value and the files after it
SetVersion(repo, new_version, files) ==
    IF ~files[repo].exists
    THEN [ok |-> FALSE, files |-> files]
    ELSE [ok |-> TRUE,
          files |-> [files EXCEPT ![repo].version =
                        WrittenVersion(repo, new_version, files[repo])]]

UpdateResultAnyUpdated(count) == count >= 1

\* return success_count == len(self.repos)
UpdateResult(count) == count = Len(Repos)

UpdateInit ==
    /\ uvPc = "start"
    /\ uvNew \in UpdateVersions
    /\ uvCreateTags \in BOOLEAN
    /\ uvFiles \in [RepoSet -> VersionFiles]
    /\ uvBefore = uvFiles
    /\ uvOrder = <<>>
    /\ uvIndex = 0
    /\ uvSkipped = <<>>
    /\ uvUpdated = <<>>
    /\ uvTagged = <<>>
    /\ success_count = 0
    /\ uvResult = "none"
    /\ OthersIdle("update")

\* if not self.validate_version_format(new_version): return False;
\* release_order = self._get_release_order(); success_count = 0
UpdateValidate ==
    /\ uvPc = "start"
    /\ IF ~ValidateVersionFormat(uvNew)
       THEN /\ uvPc' = "returned"
            /\ uvResult' = "False"
            /\ UNCHANGED <<uvOrder, uvIndex>>
       ELSE /\ uvPc' = "for"
            /\ uvOrder' = GetReleaseOrder(ConfiguredDependencies)
            /\ uvIndex' = 1
            /\ UNCHANGED uvResult
    /\ UNCHANGED <<uvNew, uvCreateTags, uvBefore, uvFiles, uvSkipped, uvUpdated, uvTagged,
                   success_count, notUpdateVars>>

\* one pass of  for repo in release_order: the dependency check, continue when
\* it fails, else set_version and, when that succeeds, the count and the tag;
\* after the last repo: return success_count == len(self.repos)
UpdateRepository ==
    /\ uvPc = "for"
    /\ LET repo == uvOrder[uvIndex]
           compatibility ==
               CheckDependencyCompatibility(repo, uvNew,
                                            [r \in RepoSet |-> ReadVersion(r, uvFiles)])
           set == SetVersion(repo, uvNew, uvFiles)
           updated == compatibility.compatible /\ set.ok
           count == IF updated THEN success_count + 1 ELSE success_count
       IN  /\ uvSkipped' = IF compatibility.compatible THEN uvSkipped
                           ELSE Append(uvSkipped, repo)
           /\ uvFiles' = IF compatibility.compatible THEN set.files ELSE uvFiles
           /\ uvUpdated' = IF updated THEN Append(uvUpdated, repo) ELSE uvUpdated
           /\ uvTagged' = IF updated /\ uvCreateTags THEN Append(uvTagged, repo)
                          ELSE uvTagged
           /\ success_count' = count
           /\ IF uvIndex < Len(uvOrder)
              THEN /\ uvIndex' = uvIndex + 1
                   /\ UNCHANGED <<uvPc, uvResult>>
              ELSE /\ uvPc' = "returned"
                   /\ uvResult' = IF UpdateResult(count) THEN "True" ELSE "False"
                   /\ UNCHANGED uvIndex
    /\ UNCHANGED <<uvNew, uvCreateTags, uvBefore, uvOrder, notUpdateVars>>

UpdateNext == UpdateValidate \/ UpdateRepository

SpecUpdate == UpdateInit /\ [][UpdateNext]_vars

----------------------------------------------------------------------------
(* Properties *)

\* C1: on every acyclic dependency table the release order computed by
\* generate_release_plan, and by _get_release_order, holds every repository
\* exactly once, and every dependency at a smaller index than its dependent.
C1_ReleaseOrderTopological ==
    Acyclic(dependencies) =>
        /\ pc = "return" =>
              /\ IsPermutation(release_order)
              /\ DependenciesFirst(dependencies, release_order)
        /\ IsPermutation(GetReleaseOrder(dependencies))
        /\ DependenciesFirst(dependencies, GetReleaseOrder(dependencies))

\* the plan was computed for an acyclic table on which the release order is
\* not the declaration order
C1_Witness ==
    /\ pc = "return"
    /\ Acyclic(dependencies)
    /\ release_order # Repos
    /\ \E r \in RepoSet : dependencies[r] # {}

\* C2: the rollback order of determine_rollback_order is the exact reverse of
\* the release order computed for the same dependency table.
C2_RollbackIsReverseOfRelease ==
    pc = "return" =>
        DetermineRollbackOrder(dependencies) = Reverse(release_order)

\* C3: in the rollback plan of an acyclic table every repository stands before
\* the repositories it depends on, and when live execute_rollback works on a
\* repository, every repository that depends on it is completely rolled back.
C3_DependentsRolledBackFirst ==
    (Acyclic(dependencies) /\ rbPc \in {"planned", "steps", "checks", "returned"}) =>
        /\ DependentsFirst(dependencies, rollback_order)
        /\ rbPc \in {"steps", "checks"} =>
              \A r \in RepoSet :
                  rollback_order[rbRepo] \in dependencies[r] => r \in RolledBack

\* C4: when a full scan over the unplaced repositories has placed none of them
\* (the table has a cycle), the computation of the release order has failed
\* with CycleDetected.
C4_CycleDetected ==
    (scans >= 1 /\ pc = "while" /\ placed = 0 /\ released # RepoSet) =>
        pc = "CycleDetected"

\* a decimal number without a leading zero, except the literal 0
IsDecimalNumber(t) ==
    /\ Len(t) >= 1
    /\ \A k \in 1..Len(t) : t[k] \in Digits
    /\ Len(t) > 1 => t[1] # "0"

\* a dot-separated list of identifiers over digits, letters and hyphens;
\* with numeric set, an identifier of digits only is a decimal number
IsIdentifierList(t, numeric) ==
    \A k \in 1..Len(Split(t, ".")) :
        LET id == Split(t, ".")[k]
        IN  /\ Len(id) >= 1
            /\ \A m \in 1..Len(id) : id[m] \in Digits \cup Letters \cup {"-"}
            /\ (numeric /\ \A m \in 1..Len(id) : id[m] \in Digits) => IsDecimalNumber(id)

\* MAJOR.MINOR.PATCH with an optional -prerelease and an optional +build suffix
IsSemVerForm(s) ==
    LET plus == FirstIndex(s, "+")
        front == IF plus = 0 THEN s ELSE Slice(s, 1, plus)
        build == Slice(s, plus + 1, Len(s) + 1)
        hyphen == FirstIndex(front, "-")
        core == IF hyphen = 0 THEN front ELSE Slice(front, 1, hyphen)
        prerelease == Slice(front, hyphen + 1, Len(front) + 1)
    IN  /\ Len(Split(core, ".")) = 3
        /\ \A k \in 1..3 : IsDecimalNumber(Split(core, ".")[k])
        /\ hyphen # 0 => IsIdentifierList(prerelease, TRUE)
        /\ plus # 0 => IsIdentifierList(build, FALSE)

\* s without one leading lower-case v and without one trailing newline
StripVAndNewline(s) ==
    LET t == IF Len(s) >= 1 /\ s[Len(s)] = "\n" THEN Slice(s, 1, Len(s)) ELSE s
    IN  IF Len(t) >= 1 /\ t[1] = "v" THEN Slice(t, 2, Len(t) + 1) ELSE t

RECURSIVE DecimalValue(_)
\* the number a list of digits writes
DecimalValue(t) ==
    IF t = <<>> THEN 0
    ELSE 10 * DecimalValue(Slice(t, 1, Len(t)))
            + (CHOOSE n \in 0..9 : <<"0", "1", "2", "3", "4", "5", "6", "7", "8", "9">>[n + 1] = t[Len(t)])

\* the major version number of a version validate_version_format accepts
MajorNumber(v) == DecimalValue(Split(StripVAndNewline(v), ".")[1])

\* C9: for a target version and dependency versions that validate_version_format
\* accepts, check_dependency_compatibility appends exactly one issue for each
\* dependency whose major version number differs from the target's and none
\* for a dependency with the same major number, and compatible is true exactly
\* when the issue list is empty.
C9_MajorNumberEqualityDecides ==
    (/\ cmpPc = "returned"
     /\ cmpRepo \in RepoSet
     /\ ValidateVersionFormat(cmpTarget)
     /\ \A d \in dependencies[cmpRepo] : ValidateVersionFormat(current_version[d])) =>
        /\ \A d \in dependencies[cmpRepo] :
              Cardinality({k \in 1..Len(cmpResult.issues) : cmpResult.issues[k].dep = d})
                  = IF MajorNumber(current_version[d]) # MajorNumber(cmpTarget) THEN 1 ELSE 0
        /\ cmpResult.compatible <=> cmpResult.issues = <<>>

\* C5: in live mode execute_release calls its step functions in the declared
\* order, each one only after all earlier ones returned True, and once a step
\* function returns False it returns False and calls no further step function
\* and none twice.
C5_StepsInOrderAbortOnFailure ==
    (arPc # "idle" /\ ~arDryRun) =>
        /\ Len(arInvoked) <= Len(StepNames)
        /\ Len(arOutcomes) = Len(arInvoked)
        /\ \A i \in 1..Len(arInvoked) : arInvoked[i] = StepNames[i]
        /\ \A i \in 1..(Len(arInvoked) - 1) : arOutcomes[i] = "True"
        /\ \A i \in 1..Len(arInvoked) :
              arOutcomes[i] = "False" => arPc = "returned" /\ arResult = "False"
        /\ arResult = "False" => arOutcomes[Len(arOutcomes)] = "False"

\* a live run in which a step function was called after an earlier one returned
\* True, and a live run that returned False at the failing step
C5_Witness ==
    /\ ~arDryRun
    /\ arEntry = "execute_release"
    /\ \/ arInvoked = <<"update_versions", "run_integration_tests">>
       \/ arPc = "returned" /\ arResult = "False" /\ arInvoked = <<"update_versions">>

\* C6: in dry-run mode execute_release calls none of its step functions,
\* execute_release_plan never calls release_repository, and execute_rollback
\* runs no step and no verification check.
C6_DryRunInvokesNothing ==
    /\ (arPc # "idle" /\ arDryRun) => arInvoked = <<>> /\ arOutcomes = <<>>
    /\ (coPc # "idle" /\ coDryRun) => coReleased = <<>>
    /\ (rbPc # "idle" /\ rbDryRun) => rbLog = <<>>

\* a dry run of execute_release that went through all five steps
C6_Witness ==
    /\ arDryRun
    /\ arPc = "returned"
    /\ arPreviewed = StepNames

C10_InvalidArgumentsFailFast ==
    (/\ arEntry = "main"
     /\ \/ ~ValidateVersionFormat(argVersion)
        \/ argType \notin {"major", "minor", "patch", "prerelease"}) =>
        /\ arPc \in {"main", "returned"}
        /\ arPc = "returned" => arExit = 1
        /\ arPlan = NoPlan
        /\ arQueries = 0
        /\ arInvoked = <<>>
        /\ arPreviewed = <<>>

\* main returned 1 for a valid version with an unrecognized release type
C10_Witness ==
    /\ arEntry = "main"
    /\ arPc = "returned"
    /\ arExit = 1
    /\ ValidateVersionFormat(argVersion)
    /\ argType = "hotfix"

----------------------------------------------------------------------------
\* the versions a plan recorded for the repositories (its current_version fields)
PlanVersions(plan) == [r \in RepoSet |-> plan.repositories[r].current_version]

\* C11: planning is never aborted by a compatibility failure: the plan built
\* by generate_release_plan lists every repository in release_order, and its
\* release_ready flag of a repository is true exactly when the version
\* compatibility validator, reading the same versions, reports the repository
\* compatible with the target version (an empty issue list).
C11_ReleaseReadyIffValidatorCompatible ==
    coPlan # NoPlan =>
        /\ IsPermutation(coPlan.release_order)
        /\ \A r \in RepoSet :
              coPlan.repositories[r].release_ready
                 = CheckDependencyCompatibility(r, coPlan.version,
                                                PlanVersions(coPlan)).compatible

----------------------------------------------------------------------------
\* 1 when the status is not 'success' (unknown included), else 0
NotSuccess(st) == IF st = "success" THEN 0 ELSE 1

\* C12: calculate_health_score returns 100 minus 30 for a build status that is
\* not success, minus 30 for a test status that is not success, minus 40 for a
\* deployment status that is not success (unknown counts as not success); the
\* result is an integer in 0..100: 100 when all succeed, 70 when only the build
\* fails, 0 when all three fail.
C12_HealthScoreDeductions ==
    (hsPc = "returned" /\ hsCall = "calculate_health_score") =>
        /\ hsResult = 100 - 30 * NotSuccess(hsArg.build_status)
                          - 30 * NotSuccess(hsArg.test_status)
                          - 40 * NotSuccess(hsArg.deployment_status)
        /\ hsResult \in 0..100
        /\ (hsArg.build_status = "failure" /\ hsArg.test_status = "success"
               /\ hsArg.deployment_status = "success") => hsResult = 70
        /\ (hsArg.build_status = "unknown" /\ hsArg.test_status = "failure"
               /\ hsArg.deployment_status = "failure") => hsResult = 0

\* C12 witness: the score 60 was computed for a repository whose deployment
\* status alone is not success, being unknown
C12_Witness ==
    /\ hsPc = "returned"
    /\ hsCall = "calculate_health_score"
    /\ hsArg.build_status = "success"
    /\ hsArg.test_status = "success"
    /\ hsArg.deployment_status = "unknown"
    /\ hsResult = 60

\* C13: calculate_overall_status returns error when some repository has a
\* health score below 60, otherwise warning when some repository has a score
\* from 60 to 79, otherwise success; [90,85] gives success, [90,65] warning,
\* [90,50] error.
C13_OverallStatusBuckets ==
    (hsPc = "returned" /\ hsCall = "calculate_overall_status") =>
        /\ hsResult =
              IF \E k \in DOMAIN hsArg : hsArg[k].health_score < 60 THEN "error"
              ELSE IF \E k \in DOMAIN hsArg : hsArg[k].health_score \in 60..79
              THEN "warning"
              ELSE "success"
        /\ hsArg = <<[health_score |-> 90], [health_score |-> 85]>> => hsResult = "success"
        /\ hsArg = <<[health_score |-> 90], [health_score |-> 65]>> => hsResult = "warning"
        /\ hsArg = <<[health_score |-> 90], [health_score |-> 50]>> => hsResult = "error"

\* C13 witness: the scores [80, 60] were judged, both on a bucket border
C13_Witness ==
    /\ hsPc = "returned"
    /\ hsCall = "calculate_overall_status"
    /\ hsArg = <<[health_score |-> 80], [health_score |-> 60]>>
    /\ hsResult = "warning"

----------------------------------------------------------------------------
\* the severities of the problems in a list
SeveritiesOf(problems) == {problems[k].severity : k \in 1..Len(problems)}

\* C14: detect_issues derives severity and recommendation from the worst
\* problem found: no problem gives (none, continue); a problem of severity
\* high gives (critical, immediate_rollback); otherwise a problem of severity
\* medium gives (high, recommended_rollback); otherwise (low, monitor); no
\* other pair is returned.
C14_SeverityFromWorstIssue ==
    dtPc = "returned" =>
        LET found == SeveritiesOf(dtIssues.problems)
            pair == <<dtIssues.severity, dtIssues.recommendation>>
        IN  /\ found = {} => pair = <<"none", "continue">>
            /\ "high" \in found => pair = <<"critical", "immediate_rollback">>
            /\ ("medium" \in found /\ "high" \notin found) =>
                  pair = <<"high", "recommended_rollback">>
            /\ (found # {} /\ "high" \notin found /\ "medium" \notin found) =>
                  pair = <<"low", "monitor">>
            /\ pair \in { <<"none", "continue">>, <<"critical", "immediate_rollback">>,
                          <<"high", "recommended_rollback">>, <<"low", "monitor">> }

\* C14 witness: detect_issues found a high, a medium and a low problem together
\* and answered critical
C14_Witness ==
    /\ dtPc = "returned"
    /\ SeveritiesOf(dtIssues.problems) = {"high", "medium", "low"}
    /\ dtIssues.problems[1].severity = "low"
    /\ dtIssues.severity = "critical"

----------------------------------------------------------------------------
\* the risk points the claim counts for a plan
RiskPoints(plan) ==
    (IF MajorNumber(plan.from_version) # MajorNumber(plan.to_version) THEN 3 ELSE 0)
       + (IF Cardinality(plan.repositories) > 3 THEN 2 ELSE 0)

\* C15: for versions of the form MAJOR.MINOR.PATCH assess_rollback_risk counts
\* 3 points when the major version of from_version differs from that of
\* to_version plus 2 points when the plan covers more than 3 repositories, and
\* returns high for at least 3 points, medium for at least 1, low otherwise.
C15_RiskFromMajorAndRepoCount ==
    (/\ rkCalls # <<>>
     /\ rkCalls[1] = "assess_rollback_risk"
     /\ IsSemVerForm(rkPlan.from_version)
     /\ IsSemVerForm(rkPlan.to_version)) =>
        /\ rkPc # "raised"
        /\ rkPlan.risk_assessment =
              IF RiskPoints(rkPlan) >= 3 THEN "high"
              ELSE IF RiskPoints(rkPlan) >= 1 THEN "medium"
              ELSE "low"

\* C15 witness: a plan of exactly 3 repositories from 1.1.0 to 1.0.0 was
\* assessed as low
C15_Witness ==
    /\ rkCalls = <<"assess_rollback_risk">>
    /\ rkPlan.from_version = <<"1", ".", "1", ".", "0">>
    /\ rkPlan.to_version = <<"1", ".", "0", ".", "0">>
    /\ Cardinality(rkPlan.repositories) = 3
    /\ rkPlan.risk_assessment = "low"

\* C16: the estimated duration of a rollback plan is 5 + 2 x repo_count +
\* adjustment, the adjustment being 0 for low, 5 for medium and 10 for high
\* risk: 15 minutes for 5 repositories at low risk, 25 minutes for 5
\* repositories across a major-version change.
C16_DurationFormula ==
    rkPc = "returned" =>
        /\ rkPlan.estimated_duration =
              5 + 2 * Cardinality(rkPlan.repositories)
                + (IF rkPlan.risk_assessment = "low" THEN 0
                   ELSE IF rkPlan.risk_assessment = "medium" THEN 5
                   ELSE 10)
        /\ rkPlan.risk_assessment \in {"low", "medium", "high"}
        /\ (rkPlan.repositories = RepoSet /\ rkPlan.risk_assessment = "low") =>
              rkPlan.estimated_duration = 15
        /\ (/\ rkPlan.repositories = RepoSet
            /\ Len(rkCalls) = 2
            /\ IsSemVerForm(rkPlan.from_version)
            /\ IsSemVerForm(rkPlan.to_version)
            /\ MajorNumber(rkPlan.from_version) # MajorNumber(rkPlan.to_version)) =>
              rkPlan.estimated_duration = 25

\* C16 witness: the plan of all 5 repositories from 2.0.0 to 1.0.0 was assessed
\* as high and then estimated at 25 minutes
C16_Witness ==
    /\ rkPc = "returned"
    /\ rkCalls = <<"assess_rollback_risk", "estimate_rollback_duration">>
    /\ rkPlan.from_version = <<"2", ".", "0", ".", "0">>
    /\ rkPlan.to_version = <<"1", ".", "0", ".", "0">>
    /\ rkPlan.repositories = RepoSet
    /\ rkPlan.risk_assessment = "high"
    /\ rkPlan.estimated_duration = 25

----------------------------------------------------------------------------
\* C17: verify_rollback returns true exactly when every repository's observed
\* current version equals to_version and the service health check reports
\* healthy; one differing repository makes it false even when all others
\* match; it returns only after it has compared the version of every
\* repository.
C17_VerifyAllVersionsAndHealth ==
    /\ vfResult # "none" => vfPc = "returned"
    /\ vfPc = "returned" =>
          /\ vfChecked = Repos
          /\ vfResult = "True" <=>
                /\ \A r \in RepoSet : vfObserved[r] = vfTo
                /\ vfHealthy
          /\ vfResult \in {"True", "False"}

\* C17 witness: only the first repository's version differed from to_version,
\* the services were healthy, and verify_rollback returned false after it had
\* compared all five
C17_Witness ==
    /\ vfPc = "returned"
    /\ vfObserved[Repos[1]] # vfTo
    /\ \A k \in 2..Len(Repos) : vfObserved[Repos[k]] = vfTo
    /\ vfHealthy
    /\ Len(vfChecked) = Len(Repos)
    /\ vfResult = "False"

----------------------------------------------------------------------------
\* what holds of the monitor loop in every state: an iteration was let in only
\* at a clock value before end_time, the loop was left only at end_time or
\* later, and the final report was generated once when the monitor is done and
\* not before
MonitorLoopBounded ==
    /\ moIteration > 0 => moIterStart < moEnd
    /\ moPc \in {"report", "done"} => moNow >= moEnd
    /\ moPc = "sleep" => moInterval >= 10
    /\ moReports = (IF moPc = "done" THEN 1 ELSE 0)
    /\ (moPc = "done" /\ moDuration <= 0) => moIteration = 0

\* C18: real_time_monitor starts a poll iteration exactly while the clock is
\* before start + duration, so none starts once the elapsed time has reached
\* the duration; every sleep is at least 10 seconds and the loop is eventually
\* left; after it the final report is generated exactly once, also when the
\* duration is 0 and no iteration ran.
C18_MonitorStopsAndReportsOnce == [](MonitorLoopBounded) /\ <>(moPc = "done")

\* C18 witness: a monitor of 25 seconds ran three iterations, the last one let
\* in before the end time, and then generated its report
C18_Witness ==
    /\ moPc = "done"
    /\ moDuration = 25
    /\ moIteration = 3
    /\ moIterStart < moEnd
    /\ moReports = 1

\* C19: in every monitor iteration the sleep interval is the one of the
\* overall_status polled in that iteration: 10 seconds for error, 30 for
\* warning, 60 for success; no other interval is used.
C19_IntervalFromPolledStatus ==
    moPc = "sleep" =>
        /\ moStatus.overall_status = "error" => moInterval = 10
        /\ moStatus.overall_status = "warning" => moInterval = 30
        /\ moStatus.overall_status = "success" => moInterval = 60
        /\ moInterval \in {10, 30, 60}

\* C19 witness: the second iteration polled an error and sleeps 10 seconds
C19_Witness ==
    /\ moPc = "sleep"
    /\ moIteration = 2
    /\ moStatus.overall_status = "error"
    /\ moInterval = 10

\* C20: in a monitor iteration an alert is raised exactly when the polled
\* overall_status is error or the average health score of the repositories is
\* below 70.
C20_AlertIffErrorOrLowAverage ==
    moPc = "sleep" =>
        (moAlerts # {} <=>
            \/ moStatus.overall_status = "error"
            \/ TotalScore(moStatus.repositories, Repos) < 70 * Len(Repos))

\* C20 witness: no repository is in the error bucket, the average is below 70,
\* and an alert was raised
C20_Witness ==
    /\ moPc = "sleep"
    /\ moStatus.overall_status = "warning"
    /\ moStatus.health_indicators.average_health_score < 70
    /\ moAlerts # {}

----------------------------------------------------------------------------
\* C30: every plan generate_rollback_plan returns has the same 5 repositories
\* in rollback_order and in its repositories map, has risk_assessment high
\* exactly when the major version numbers of from_version and to_version
\* differ and medium otherwise, never low, and has estimated_duration 25 in
\* the high case and 20 in the medium case.
C30_ReturnedPlanFiveReposRiskAndDuration ==
    rbPlan # NoRollbackPlan =>
        /\ Len(rollback_order) = 5
        /\ {rollback_order[i] : i \in 1..Len(rollback_order)} = RepoSet
        /\ rbPlan.repositories = RepoSet
        /\ rbPlan.risk_assessment =
              IF MajorNumber(rbPlan.from_version) # MajorNumber(rbPlan.to_version)
              THEN "high" ELSE "medium"
        /\ rbPlan.estimated_duration = IF rbPlan.risk_assessment = "high" THEN 25 ELSE 20

\* C30 witness: the plan returned for the configured table from 2.0.0 to
\* 1.0.0 is high risk with 25 minutes
C30_Witness ==
    /\ rbPc = "planned"
    /\ dependencies = ConfiguredDependencies
    /\ rbPlan # NoRollbackPlan
    /\ rbPlan.from_version = <<"2", ".", "0", ".", "0">>
    /\ rbPlan.to_version = <<"1", ".", "0", ".", "0">>
    /\ rbPlan.risk_assessment = "high"
    /\ rbPlan.estimated_duration = 25

----------------------------------------------------------------------------
\* what a live rollback reports k-th for the rollback order `order`: per
\* repository the four steps in their listed order, then the three checks
ExpectedReport(order, k) ==
    LET repo == order[((k - 1) \div 7) + 1]
        item == ((k - 1) % 7) + 1
    IN  IF item <= 4
        THEN <<repo, "step", <<"stop service", "checkout tag", "rebuild", "start service">>[item]>>
        ELSE <<repo, "check", <<"service status", "version", "health">>[item - 4]>>

\* C25: live execute_rollback handles the repositories one after another in
\* plan rollback_order; for each repository it reports the steps stop service,
\* checkout tag, rebuild, start service in that order and only then its
\* verification checks, and it starts the next repository only after all
\* steps and checks of the current one are reported.
C25_RollbackReportsInPlanOrder ==
    /\ Len(rbLog) <= 7 * Len(rollback_order)
    /\ \A k \in 1..Len(rbLog) : rbLog[k] = ExpectedReport(rollback_order, k)
    /\ rbPc \in {"steps", "checks"} =>
          rbRepo = (Len(rbLog) \div 7) + 1

\* C25 witness: all steps and checks of the first repository are reported and
\* the first step of the second repository is about to run
C25_Witness ==
    /\ rbPc = "steps"
    /\ ~rbDryRun
    /\ rbRepo = 2
    /\ rbItem = 1
    /\ Len(rbLog) = 7

\* C26: live execute_rollback has no abort path: it never returns False, and
\* when it returns it has reported every step and every verification check of
\* every repository of rollback_order and returns True.
C26_RollbackNeverAborts ==
    /\ rbResult \in {"none", "True"}
    /\ (rbPc = "returned" /\ ~rbDryRun) =>
          /\ rbResult = "True"
          /\ \A i \in 1..Len(rollback_order) :
                /\ \A st \in {"stop service", "checkout tag", "rebuild", "start service"} :
                      \E k \in 1..Len(rbLog) : rbLog[k] = <<rollback_order[i], "step", st>>
                /\ \A ch \in {"service status", "version", "health"} :
                      \E k \in 1..Len(rbLog) : rbLog[k] = <<rollback_order[i], "check", ch>>
    /\ (rbPc \in {"steps", "checks"}) => ENABLED (RunRollbackStep \/ RunVerificationCheck)

\* C26 witness: a live rollback of 5 repositories returned True after 35 reports
C26_Witness ==
    /\ rbPc = "returned"
    /\ ~rbDryRun
    /\ rbResult = "True"
    /\ Len(rollback_order) = 5
    /\ Len(rbLog) = 35

----------------------------------------------------------------------------
\* C28: VersionManager.validate_version_format and
\* ReleaseCoordinator.is_valid_version accept the same version strings, so a
\* version that passed format validation is never rejected by
\* validate_release_plan for its format.
C28_FormatChecksAgree ==
    verPc = "returned" => (verResult <=> IsValidVersion(verInput))

----------------------------------------------------------------------------
\* C23: for a valid version and a recognized release type AutoRelease.main
\* runs plan building, the prerequisite check, the execution and the report
\* in order and returns 0 exactly when the prerequisites passed and
\* execute_release reported success: the plan handed to the prerequisite check
\* carries the target_version, repositories and release_order fields that are
\* read from it, no stage ends main with an exception, and main returns 1
\* only for rejected arguments or failed stages.
C23_MainRunsStagesOnCompletePlan ==
    arEntry = "main" =>
        /\ arPlan # NoPlan =>
              {"target_version", "repositories", "release_order"} \subseteq DOMAIN arPlan
        /\ arError = "none"
        /\ arPc # "raised"

----------------------------------------------------------------------------
\* the number of the three checks of repository r that did not report success
FailedChecks(r) ==
    (IF moProbes[r].build_status # "success" THEN 1 ELSE 0)
       + (IF moProbes[r].test_status # "success" THEN 1 ELSE 0)
       + (IF moProbes[r].deployment_status # "success" THEN 1 ELSE 0)

\* C29 as stated: overall_status is success exactly when every repository has
\* all three statuses success, error exactly when some repository has a
\* non-success deployment status together with a non-success build or test
\* status, and warning in every other case, so that a repository whose build
\* and test both failed yields warning.
C29_ErrorOnlyWithFailedDeployment ==
    moPc = "shown" =>
        LET allWell == \A r \in RepoSet : FailedChecks(r) = 0
            deploymentAndOther ==
                \E r \in RepoSet :
                    /\ moProbes[r].deployment_status # "success"
                    /\ \/ moProbes[r].build_status # "success"
                       \/ moProbes[r].test_status # "success"
        IN  moStatus.overall_status =
               IF allWell THEN "success"
               ELSE IF deploymentAndOther THEN "error"
               ELSE "warning"

\* C29 amended: overall_status is success exactly when every repository has
\* all three statuses success, error exactly when some repository has at
\* least two non-success statuses, and warning in every other case; a
\* repository whose deployment alone failed scores 60, one whose build and
\* test both failed scores 40.
C29_ErrorWithTwoFailedChecks ==
    moPc = "shown" =>
        /\ moStatus.overall_status =
              IF \A r \in RepoSet : FailedChecks(r) = 0 THEN "success"
              ELSE IF \E r \in RepoSet : FailedChecks(r) >= 2 THEN "error"
              ELSE "warning"
        /\ \A r \in RepoSet :
              /\ (FailedChecks(r) = 1 /\ moProbes[r].deployment_status # "success") =>
                    moStatus.repositories[r].health_score = 60
              /\ (FailedChecks(r) = 2 /\ moProbes[r].deployment_status = "success") =>
                    moStatus.repositories[r].health_score = 40

\* C29 witness: build and test of one repository failed, its deployment and
\* all other repositories are well, and the overall status is error
C29_Witness ==
    /\ moPc = "shown"
    /\ moStatus.overall_status = "error"
    /\ \E r \in RepoSet :
          /\ moProbes[r].build_status # "success"
          /\ moProbes[r].test_status # "success"
          /\ moProbes[r].deployment_status = "success"
          /\ \A q \in RepoSet \ {r} : FailedChecks(q) = 0

----------------------------------------------------------------------------
VerificationPasses ==
    /\ \A r \in RepoSet : vfObserved[r] = rmToVersion
    /\ vfHealthy

\* C22: in live rollback mode AutoRollback.main returns 0 exactly when
\* execute_rollback succeeded and the following verify_rollback passed, and
\* non-zero when the verification finds a version mismatch or unhealthy
\* services; without a target version it returns non-zero without building a
\* plan; in verify mode it returns 0 exactly when verify_rollback passes.
C22_ExitCodeZeroOnlyOnFullSuccess ==
    rmPc = "returned" =>
        /\ rmExit \in {0, 1}
        /\ (~rmDetect /\ ~rmVerify /\ NotGiven(rmToVersion)) =>
              /\ rmExit = 1
              /\ rbPc = "idle"
              /\ rbPlan = NoRollbackPlan
        /\ (~rmDetect /\ ~rmVerify /\ ~NotGiven(rmToVersion) /\ ~rmDryRun) =>
              /\ rmExit = 0 <=> (rbResult = "True" /\ vfResult = "True")
              /\ vfResult = "True" <=> VerificationPasses
        /\ (~rmDetect /\ rmVerify) =>
              /\ rmExit = 0 <=> vfResult = "True"
              /\ vfResult = "True" <=> VerificationPasses

\* C22 witness: a live rollback ran all its steps, the verification found one
\* repository at another version with healthy services, and main returned 1
C22_Witness ==
    /\ rmPc = "returned"
    /\ ~rmDetect /\ ~rmVerify /\ ~rmDryRun
    /\ rbResult = "True"
    /\ Len(rbLog) = 35
    /\ vfHealthy
    /\ Cardinality({r \in RepoSet : vfObserved[r] # rmToVersion}) = 1
    /\ rmExit = 1

----------------------------------------------------------------------------
\* the version file of repository r, as it was when update_all_versions was
\* called, can be written and read back: set_version succeeds on it and
\* get_current_version then reads new_version
WritesAndReadsBack(r) ==
    /\ SetVersion(r, uvNew, uvBefore).ok
    /\ ReadVersion(r, SetVersion(r, uvNew, uvBefore).files) = uvNew

\* the elements of a list
Elements(list) == {list[i] : i \in 1..Len(list)}

\* C27: in update_all_versions with a valid new_version, when every
\* repository's version file can be written and read back, no repository
\* fails its compatibility check whatever versions the files held before, all
\* repositories end at new_version and the call returns True. The call returns
\* True only if set_version succeeded for every repository; a repository
\* failing its check is skipped, its file left as it was, and the loop still
\* handles every later repository of the release order.
C27_UpdateAllVersionsInReleaseOrder ==
    /\ (uvPc \in {"for", "returned"} /\ ValidateVersionFormat(uvNew)
          /\ \A r \in RepoSet : WritesAndReadsBack(r)) =>
          /\ uvSkipped = <<>>
          /\ uvPc = "returned" =>
                /\ \A r \in RepoSet : ReadVersion(r, uvFiles) = uvNew
                /\ uvResult = "True"
    /\ uvResult = "True" => Elements(uvUpdated) = RepoSet
    /\ (uvPc = "returned" /\ ValidateVersionFormat(uvNew)) =>
          /\ uvIndex = Len(Repos)
          /\ \A r \in RepoSet :
                \/ r \in Elements(uvSkipped) /\ uvFiles[r] = uvBefore[r]
                \/ r \in Elements(uvUpdated)
                \/ ~uvBefore[r].exists

\* C27 witness: the files held versions of majors 1 and 3, new_version is
\* 2.0.0, and the call returned True
C27_Witness ==
    /\ uvPc = "returned"
    /\ uvNew = <<"2", ".", "0", ".", "0">>
    /\ uvBefore["vabhub-core"].version = <<"1", ".", "0", ".", "0">>
    /\ uvBefore["vabhub-frontend"].version = <<"3", ".", "0", ".", "0">>
    /\ uvBefore["vabhub-deploy"].version = <<"1", ".", "0", ".", "0">>
    /\ \A r \in RepoSet : WritesAndReadsBack(r)
    /\ uvSkipped = <<>>
    /\ uvResult = "True"

----------------------------------------------------------------------------
\* C24: live execute_release_plan releases the repositories one at a time in
\* release_order: release_repository is called for a repository only after it
\* returned success in this run for each of its dependencies, and after the
\* first call that fails no further repository is released and the result is
\* False.
C24_LiveReleaseInOrderAbortsOnFailure ==
    (coPc \in {"release", "returned"} /\ ~coDryRun) =>
        /\ Len(coReleased) <= Len(coPlan.release_order)
        /\ Len(coOutcomes) = Len(coReleased)
        /\ \A k \in 1..Len(coReleased) :
              /\ coReleased[k] = coPlan.release_order[k]
              /\ \A d \in ConfiguredDependencies[coReleased[k]] :
                    \E j \in 1..(k - 1) : coReleased[j] = d /\ coOutcomes[j]
              /\ k < Len(coReleased) => coOutcomes[k]
        /\ (\E k \in 1..Len(coOutcomes) : ~coOutcomes[k]) =>
              (coPc = "returned" /\ coResult = "False")
        /\ coResult = "True" =>
              (coReleased = coPlan.release_order /\ \A k \in 1..Len(coOutcomes) : coOutcomes[k])

\* C24 witness: the release of the second repository failed, the run returned
\* False and released nothing further
C24_Witness ==
    /\ coPc = "returned"
    /\ ~coDryRun
    /\ coResult = "False"
    /\ Len(coReleased) = 2
    /\ coOutcomes = <<TRUE, FALSE>>

====
